---- MODULE Spec2Model ----
(***************************************************************************)
(* Model of the transaction pipeline of app.py: internal-transfer          *)
(* detection (detect_internal_transfers), the batched classification run   *)
(* (classify_batch_with_ollama, classify_transactions) and the part of     *)
(* main() that drives them through the Streamlit session state.            *)
(*                                                                         *)
(* Text is a sequence of one-character strings, so that strip, split and   *)
(* the regular expressions of the code are computed, not assumed.          *)
(* Amounts are integers in units of one cent; dates are day numbers, with  *)
(* NaT for a missing date.                                                 *)
(***************************************************************************)
EXTENDS Integers, Sequences, FiniteSets, TLC

\* ------------------------------------------------------------------ bounds
MaxRows == 3          \* rows of the merged table
MaxBatch == 2         \* largest batch size offered by the slider in the model
MaxReplyLines == 3    \* lines of one service reply
MaxRuns == 2          \* classification runs of one session

\* --------------------------------------------------------------- text
Whitespace == {" ", "\t", "\n"}
Digits == {"0", "1", "2", "3", "4", "5", "6", "7", "8", "9"}
Separators == {".", ")", "-", ":"}

RECURSIVE LStrip(_)
LStrip(s) ==
  IF s # <<>> /\ Head(s) \in Whitespace THEN LStrip(Tail(s)) ELSE s

RECURSIVE RStrip(_)
RStrip(s) ==
  IF s # <<>> /\ s[Len(s)] \in Whitespace
    THEN RStrip(SubSeq(s, 1, Len(s) - 1))
    ELSE s

\* str.strip()
Strip(s) == RStrip(LStrip(s))

\* str.split('\n'): always at least one (possibly empty) piece
RECURSIVE SplitLines(_, _, _)
SplitLines(s, cur, acc) ==
  IF s = <<>> THEN Append(acc, cur)
  ELSE IF Head(s) = "\n" THEN SplitLines(Tail(s), <<>>, Append(acc, cur))
  ELSE SplitLines(Tail(s), Append(cur, Head(s)), acc)

Split(s) == SplitLines(s, <<>>, <<>>)

\* number of leading characters of s that belong to set S
RECURSIVE SpanLen(_, _)
SpanLen(s, S) ==
  IF s # <<>> /\ Head(s) \in S THEN 1 + SpanLen(Tail(s), S) ELSE 0

Drop(s, k) == SubSeq(s, k + 1, Len(s))

\* variant: the separator after the digits is required
PrefixMatchLenNeedsSeparator(line) ==
  LET d == SpanLen(line, Digits)
      afterDigits == Drop(line, d)
      p == IF afterDigits # <<>> /\ Head(afterDigits) \in Separators THEN 1 ELSE 0
      w == SpanLen(Drop(afterDigits, p), Whitespace)
  IN IF d = 0 \/ p = 0 THEN 0 ELSE d + p + w

\* length of the match of ^\d+[\.\)\-\:]?\s* at the start of line; 0 = no match
PrefixMatchLen(line) ==
  LET d == SpanLen(line, Digits)
      afterDigits == Drop(line, d)
      p == IF afterDigits # <<>> /\ Head(afterDigits) \in Separators THEN 1 ELSE 0
      w == SpanLen(Drop(afterDigits, p), Whitespace)
  IN IF d = 0 THEN 0 ELSE d + p + w

\* ----------------------------------------------------------- labels
Uncategorized == <<"U", "n", "c", "a", "t", "e", "g", "o", "r", "i", "z", "e", "d">>
Sonstiges == <<"S", "o", "n", "s", "t", "i", "g", "e", "s">>
InternalTransferLabel ==
  <<"I", "n", "t", "e", "r", "n", "a", "l", " ", "T", "r", "a", "n", "s", "f", "e", "r">>

\* --------------------------------------------------- case-insensitive search
UpperCase == <<"A", "B", "C", "D", "E", "F", "G", "H", "I", "J", "K", "L", "M",
               "N", "O", "P", "Q", "R", "S", "T", "U", "V", "W", "X", "Y", "Z">>
LowerCase == <<"a", "b", "c", "d", "e", "f", "g", "h", "i", "j", "k", "l", "m",
               "n", "o", "p", "q", "r", "s", "t", "u", "v", "w", "x", "y", "z">>

\* re.IGNORECASE on one character
FoldMap == [k \in 1..Len(UpperCase) |-> LowerCase[k]]
UpperSet == { UpperCase[k] : k \in 1..Len(UpperCase) }
UpperIndex == [c \in UpperSet |-> CHOOSE k \in 1..Len(UpperCase) : UpperCase[k] = c]

Fold(c) == IF c \in UpperSet THEN FoldMap[UpperIndex[c]] ELSE c

FoldText(s) == [k \in 1..Len(s) |-> Fold(s[k])]

\* Series.str.contains(needle, case=False) for a literal needle
ContainsFold(hay, needle) ==
  LET h == FoldText(hay)
      n == FoldText(needle)
  IN \E k \in 0..(Len(h) - Len(n)) : SubSeq(h, k + 1, k + Len(n)) = n

\* ------------------------------------------------ internal transfer detection
NaT == <<>>

investment_keywords ==
  << <<"W", "P", "-">>,
     <<"W", "e", "r", "t", "p", "a", "p", "i", "e", "r">>,
     <<"E", "T", "F">>,
     <<"I", "S", "I", "N">>,
     <<"K", "a", "u", "f">>,
     <<"V", "e", "r", "k", "a", "u", "f">>,
     <<"D", "i", "v", "i", "d", "e", "n", "d", "e">>,
     <<"Z", "i", "n", "s">> >>

\* variant: the keywords are searched with their case
is_investment_case_sensitive(row) ==
  \E k \in 1..Len(investment_keywords) :
    \E p \in 0..(Len(row.Description) - Len(investment_keywords[k])) :
      SubSeq(row.Description, p + 1, p + Len(investment_keywords[k])) = investment_keywords[k]

\* one entry of the is_investment mask
is_investment(row) ==
  \E k \in 1..Len(investment_keywords) :
    ContainsFold(row.Description, investment_keywords[k])

\* one entry of the matches_user mask
matches_user(row, name) == ContainsFold(row.Account, name)

Abs(x) == IF x < 0 THEN -x ELSE x

\* variant: the date window taken as "less than 2 days"
PairMatchesStrictWindow(table, flags, investment, idx, tol) ==
  LET opposite_amount == -(table[idx].Amount)
  IN { j \in 1..Len(table) :
         /\ j # idx
         /\ ~flags[j]
         /\ ~investment[j]
         /\ table[j].Amount >= opposite_amount - tol
         /\ table[j].Amount <= opposite_amount + tol
         /\ table[j].Date # NaT
         /\ Abs(table[j].Date[1] - table[idx].Date[1]) < 2 }

\* variant: the partner's amount is compared with the current amount itself
PairMatchesSameAmount(table, flags, investment, idx, tol) ==
  LET opposite_amount == table[idx].Amount
  IN { j \in 1..Len(table) :
         /\ j # idx
         /\ ~flags[j]
         /\ ~investment[j]
         /\ table[j].Amount >= opposite_amount - tol
         /\ table[j].Amount <= opposite_amount + tol
         /\ table[j].Date # NaT
         /\ Abs(table[j].Date[1] - table[idx].Date[1]) <= 2 }

\* the rows selected by the boolean mask of the pairing step for current row idx;
\* flags is the Internal_Transfer column, investment the is_investment mask
PairMatches(table, flags, investment, idx, tol) ==
  LET opposite_amount == -(table[idx].Amount)
  IN { j \in 1..Len(table) :
         /\ j # idx
         /\ ~flags[j]
         /\ ~investment[j]
         /\ table[j].Amount >= opposite_amount - tol
         /\ table[j].Amount <= opposite_amount + tol
         /\ table[j].Date # NaT
         /\ Abs(table[j].Date[1] - table[idx].Date[1]) <= 2 }

\* variant: the partner is the last matching row
MaxOf(S) == CHOOSE x \in S : \A y \in S : x >= y

MinOf(S) == CHOOSE x \in S : \A y \in S : x <= y

\* the for-loop over df.iterrows(), from row idx on; yields the flag column
RECURSIVE PairLoop(_, _, _, _, _)
PairLoop(table, flags, investment, idx, tol) ==
  IF idx > Len(table) THEN flags
  ELSE IF flags[idx] \/ investment[idx]
    THEN PairLoop(table, flags, investment, idx + 1, tol)
  ELSE IF table[idx].Date = NaT \/ table[idx].Amount = 0
    THEN PairLoop(table, flags, investment, idx + 1, tol)
  ELSE LET matches == PairMatches(table, flags, investment, idx, tol)
       IN IF matches # {}
            THEN PairLoop(table,
                          [k \in 1..Len(table) |-> flags[k] \/ k = idx \/ k = MinOf(matches)],
                          investment, idx + 1, tol)
            ELSE PairLoop(table, flags, investment, idx + 1, tol)

\* variant: the rule also runs for an empty user name
UserRuleUnguarded(table, investment, name) ==
  [k \in 1..Len(table) |->
     \/ table[k].Internal_Transfer
     \/ (matches_user(table[k], name) /\ ~investment[k])]

\* variant: the flag column is started afresh
UserRuleFresh(table, investment, name) ==
  [k \in 1..Len(table) |->
     name # <<>> /\ matches_user(table[k], name) /\ ~investment[k]]

\* the flag column after the user-name rule
UserRule(table, investment, name) ==
  [k \in 1..Len(table) |->
     \/ table[k].Internal_Transfer
     \/ (name # <<>> /\ matches_user(table[k], name) /\ ~investment[k])]

\* variant: the pairing step does not look at the investment mask
detect_internal_transfers_pairing_investments(table, name, tol) ==
  LET investment == [k \in 1..Len(table) |-> is_investment(table[k])]
      flags == PairLoop(table, UserRule(table, investment, name),
                        [k \in 1..Len(table) |-> FALSE], 1, tol)
  IN [k \in 1..Len(table) |-> [table[k] EXCEPT !.Internal_Transfer = flags[k]]]

detect_internal_transfers(table, name, tol) ==
  LET investment == [k \in 1..Len(table) |-> is_investment(table[k])]
      flags == PairLoop(table, UserRule(table, investment, name), investment, 1, tol)
  IN [k \in 1..Len(table) |-> [table[k] EXCEPT !.Internal_Transfer = flags[k]]]

\* ------------------------------------------------------- batch classification
\* the categories recovered from the reply text, in reply order
RECURSIVE CollectCategories(_, _)
CollectCategories(lines, categories) ==
  IF lines = <<>> THEN categories
  ELSE LET line == Strip(Head(lines))
       IN IF PrefixMatchLen(line) > 0
            THEN CollectCategories(Tail(lines),
                   Append(categories, Strip(Drop(line, PrefixMatchLen(line)))))
            ELSE CollectCategories(Tail(lines), categories)

ParseReply(content) == CollectCategories(Split(Strip(content)), <<>>)

\* while len(categories) < n: categories.append("Sonstiges")
RECURSIVE Pad(_, _)
Pad(categories, n) ==
  IF Len(categories) < n THEN Pad(Append(categories, Sonstiges), n) ELSE categories

\* variant: the list is not cut to the batch size
TruncateNone(categories, n) == categories

\* categories[:n]
Truncate(categories, n) ==
  SubSeq(categories, 1, IF Len(categories) < n THEN Len(categories) ELSE n)

\* variant: the except branch returns an empty list
classify_batch_no_fallback(n, response) ==
  IF response.kind = "text"
    THEN [categories |-> Truncate(Pad(ParseReply(response.content), n), n), warned |-> FALSE]
    ELSE [categories |-> <<>>, warned |-> TRUE]

\* response.kind: "text" (a reply with message content), "malformed" (a reply
\* without message content: the subscript raises), "raise" (ollama.chat raises)
classify_batch_with_ollama(n, response) ==
  IF response.kind = "text"
    THEN [categories |-> Truncate(Pad(ParseReply(response.content), n), n), warned |-> FALSE]
    ELSE [categories |-> [k \in 1..n |-> Sonstiges], warned |-> TRUE]

\* the service call failed: it raised, or the reply has no usable content
ServiceFailed(r) == r.kind # "text" \/ ParseReply(r.content) = <<>>

\* ------------------------------------------------------------ input domains
\* descriptions, accounts and user names of the model
PlainDescription == <<"M", "i", "e", "t", "e">>
InvestmentDescription == <<"e", "t", "f", " ", "k", "a", "u", "f">>
ShopAccount == <<"M", "a", "x", "x">>
OwnAccount == <<"M", ".", "X", " ", "M">>
UserNames == {<<>>, <<"m", ".", "x">>}

Row(date, description, amount, account) ==
  [Date |-> date, Description |-> description, Amount |-> amount,
   Account |-> account, Category |-> Uncategorized, Internal_Transfer |-> FALSE]

\* rows of the table merged in main(): a payment to a shop and a payment to
\* the user's own name
UIRows ==
  { Row(<<0>>, PlainDescription, -1, ShopAccount),
    Row(<<0>>, PlainDescription, -2, OwnAccount) }

SeqsUpTo(S, n) == UNION { [1..k -> S] : k \in 0..n }

UITables == SeqsUpTo(UIRows, MaxRows)

\* the tolerance main() passes: 0.01, one cent
UITolerance == 1

\* the slider of main(): 1..50, cut at MaxBatch
BatchSizes == 1..MaxBatch

\* lines a reply of the service is made of
ReplyLines ==
  { <<"1", ".", " ", "a">>,
    <<"x">> }

RECURSIVE JoinLines(_)
JoinLines(lines) ==
  IF lines = <<>> THEN <<>>
  ELSE IF Len(lines) = 1 THEN Head(lines)
  ELSE Head(lines) \o <<"\n">> \o JoinLines(Tail(lines))

ReplyTexts == { JoinLines(lines) : lines \in SeqsUpTo(ReplyLines, MaxReplyLines) }

Responses ==
  { [kind |-> "text", content |-> t] : t \in ReplyTexts }
    \cup { [kind |-> "raise", content |-> <<>>], [kind |-> "malformed", content |-> <<>>] }

\* the replies classify_batch_with_ollama is applied to on its own
BatchReplyLines ==
  ReplyLines \cup
    { <<" ", "2", ")", "b", " ">>,
      <<"7", ":">>,
      <<"1", " ", "-", " ", "c">> }

BatchResponses ==
  { [kind |-> "text", content |-> JoinLines(lines)] :
      lines \in SeqsUpTo(BatchReplyLines, MaxReplyLines) }
    \cup { [kind |-> "raise", content |-> <<>>], [kind |-> "malformed", content |-> <<>>] }

\* the tables detect_internal_transfers is applied to on its own
DetectAmounts == {-1, 0, 1}
DetectDates == {NaT, <<0>>, <<2>>, <<3>>}
DetectTexts ==
  { <<PlainDescription, ShopAccount>>,
    <<PlainDescription, OwnAccount>>,
    <<InvestmentDescription, OwnAccount>> }
DetectRows ==
  { Row(d, t[1], a, t[2]) : d \in DetectDates, t \in DetectTexts, a \in DetectAmounts }
DetectTables == [1..MaxRows -> DetectRows]
Tolerances == {1, 2}

\* tables for a repeated detection: amounts below, at and above the tolerance,
\* and rows that arrive with the flag already set
RepeatAmounts == {-2, -1, 0, 1, 2}
RepeatRows ==
  { Row(d, PlainDescription, a, ShopAccount) : d \in {<<0>>, <<2>>, <<3>>}, a \in RepeatAmounts }
  \cup { Row(NaT, PlainDescription, 1, ShopAccount),
         Row(<<0>>, PlainDescription, 1, OwnAccount),
         Row(<<0>>, InvestmentDescription, -1, ShopAccount),
         [Row(<<0>>, PlainDescription, -1, ShopAccount) EXCEPT !.Internal_Transfer = TRUE],
         [Row(<<0>>, InvestmentDescription, 1, ShopAccount) EXCEPT !.Internal_Transfer = TRUE] }
RepeatTables == [1..MaxRows -> RepeatRows]

\* session_state.processed_data: None or a table
None == <<>>
Some(t) == <<t>>

\* --------------------------------------------------------- detect_delimiter
MaxText == 4

delimiters == <<";", ",", "\t", "|">>

\* str.count for a one-character needle
Count(text, d) == Cardinality({ i \in 1..Len(text) : text[i] = d })

\* file_content.split('\n')[0]
RECURSIVE FirstLine(_)
FirstLine(text) ==
  IF text = <<>> \/ Head(text) = "\n" THEN <<>>
  ELSE <<Head(text)>> \o FirstLine(Tail(text))

\* variant: of several delimiters with the highest count the last one wins
MaxKeyLast(counts) ==
  CHOOSE k \in 1..Len(counts) :
    /\ \A j \in 1..Len(counts) : counts[j] <= counts[k]
    /\ \A j \in (k + 1)..Len(counts) : counts[j] < counts[k]

\* max(delimiter_counts, key=delimiter_counts.get): the first key, in insertion
\* order, that no other key exceeds
MaxKey(counts) ==
  CHOOSE k \in 1..Len(counts) :
    /\ \A j \in 1..Len(counts) : counts[j] <= counts[k]
    /\ \A j \in 1..(k - 1) : counts[j] < counts[k]

detect_delimiter(text) ==
  LET first_line == FirstLine(text)
      delimiter_counts == [k \in 1..Len(delimiters) |-> Count(first_line, delimiters[k])]
      detected == MaxKey(delimiter_counts)
  IN IF delimiter_counts[detected] > 0 THEN delimiters[detected] ELSE ";"

\* texts handed to detect_delimiter
TextChars == {";", ",", "\t", "|", "a", "\n"}
ExampleLine == <<"a", ";", "b", ",", "c", ";", "d">>
DelimiterTexts ==
  UNION { [1..n -> TextChars] : n \in 0..MaxText } \cup {ExampleLine}

\* ------------------------------------------------------------- clean_amount
MaxAmountChars == 4

CurrencySymbols == {"€", "$", "£", "¥"}

\* str.replace(c, '') and re.sub of a character class by ''
Remove(text, chars) == SelectSeq(text, LAMBDA c : c \notin chars)
Keep(text, chars) == SelectSeq(text, LAMBDA c : c \in chars)

\* str.replace(old, new) for one-character strings
Replace(text, old, new) == [i \in 1..Len(text) |-> IF text[i] = old THEN new ELSE text[i]]

Contains(text, c) == \E i \in 1..Len(text) : text[i] = c

DigitSeq == <<"0", "1", "2", "3", "4", "5", "6", "7", "8", "9">>
DigitValue(c) == (CHOOSE k \in 1..Len(DigitSeq) : DigitSeq[k] = c) - 1

RECURSIVE DecimalValue(_)
DecimalValue(digits) ==
  IF digits = <<>> THEN 0
  ELSE 10 * DecimalValue(SubSeq(digits, 1, Len(digits) - 1)) + DigitValue(digits[Len(digits)])

\* a float is kept as mant / 10^frac
Number(mant, frac) == [mant |-> mant, frac |-> frac]
Zero == Number(0, 0)

\* float(s) for a string of digits, '.' and '-': [ok |-> FALSE] stands for ValueError
ParseFloat(text) ==
  LET negative == text # <<>> /\ Head(text) = "-"
      body == IF negative THEN Tail(text) ELSE text
      digits == Keep(body, Digits)
      points == { i \in 1..Len(body) : body[i] = "." }
      wellformed == /\ \A i \in 1..Len(body) : body[i] \in Digits \cup {"."}
                    /\ Cardinality(points) <= 1
                    /\ digits # <<>>
      frac == IF points = {} THEN 0 ELSE Len(body) - (CHOOSE i \in points : TRUE)
      mant == DecimalValue(digits)
  IN IF wellformed
       THEN [ok |-> TRUE, value |-> Number(IF negative THEN 0 - mant ELSE mant, frac)]
       ELSE [ok |-> FALSE, value |-> Zero]

\* variant: with both marks present the points are kept
SwapMarksKeepPoints(text) ==
  IF Contains(text, ",") THEN Replace(text, ",", ".") ELSE text

\* the European-format branches
SwapMarks(text) ==
  IF Contains(text, ",") /\ Contains(text, ".")
    THEN Replace(Remove(text, {"."}), ",", ".")
  ELSE IF Contains(text, ",")
    THEN Replace(text, ",", ".")
  ELSE text

\* the argument is None (NaN) or Some(text)
clean_amount(arg) ==
  IF arg = None THEN Zero
  ELSE LET stripped == Strip(arg[1])
           plain == Remove(stripped, CurrencySymbols)
           swapped == SwapMarks(plain)
           cleaned == Keep(swapped, Digits \cup {".", "-"})
           parsed == ParseFloat(cleaned)
       IN IF parsed.ok THEN parsed.value ELSE Zero

\* cells handed to clean_amount
AmountChars == {"0", "1", ".", ",", "-", "€", " ", "a"}
AmountExamples ==
  { <<"1", ".", "2", "3", "4", ",", "5", "6">>,
    <<"1", "2", ",", "5", "0">>,
    <<"a", "b", "c">> }
AmountTexts ==
  UNION { [1..n -> AmountChars] : n \in 0..MaxAmountChars } \cup AmountExamples
AmountArgs == {None} \cup { Some(t) : t \in AmountTexts }


\* ------------------------------------------------ load_csv_file: decoding
MaxBytes == 4

\* bytes are 0..255, decoded text is a sequence of code points
BOM == <<239, 187, 191>>
ReplacementChar == 65533

StartsWith(bytes, prefix) ==
  Len(bytes) >= Len(prefix) /\ SubSeq(bytes, 1, Len(prefix)) = prefix

IsContinuation(b) == b >= 128 /\ b <= 191

\* length of the UTF-8 sequence a lead byte announces, 0 for a byte that cannot lead
SequenceLength(b) ==
  IF b < 128 THEN 1
  ELSE IF b >= 194 /\ b <= 223 THEN 2
  ELSE IF b >= 224 /\ b <= 239 THEN 3
  ELSE IF b >= 240 /\ b <= 244 THEN 4
  ELSE 0

\* the second byte of a sequence excludes overlong forms, surrogates and
\* code points above U+10FFFF
SecondByteOk(lead, b) ==
  IF lead = 224 THEN b >= 160 /\ b <= 191
  ELSE IF lead = 237 THEN b >= 128 /\ b <= 159
  ELSE IF lead = 240 THEN b >= 144 /\ b <= 191
  ELSE IF lead = 244 THEN b >= 128 /\ b <= 143
  ELSE IsContinuation(b)

CodePoint(seq) ==
  IF Len(seq) = 1 THEN seq[1]
  ELSE IF Len(seq) = 2 THEN (seq[1] - 192) * 64 + (seq[2] - 128)
  ELSE IF Len(seq) = 3 THEN (seq[1] - 224) * 4096 + (seq[2] - 128) * 64 + (seq[3] - 128)
  ELSE (seq[1] - 240) * 262144 + (seq[2] - 128) * 4096 + (seq[3] - 128) * 64 + (seq[4] - 128)

\* bytes.decode('utf-8'), errors='strict': ok = FALSE stands for UnicodeDecodeError
RECURSIVE DecodeUtf8(_)
DecodeUtf8(bytes) ==
  IF bytes = <<>> THEN [ok |-> TRUE, text |-> <<>>]
  ELSE LET n == SequenceLength(bytes[1])
       IN IF \/ n = 0
             \/ n > Len(bytes)
             \/ (n >= 2 /\ ~SecondByteOk(bytes[1], bytes[2]))
             \/ \E i \in 3..n : ~IsContinuation(bytes[i])
            THEN [ok |-> FALSE, text |-> <<>>]
            ELSE LET rest == DecodeUtf8(SubSeq(bytes, n + 1, Len(bytes)))
                 IN [ok |-> rest.ok,
                     text |-> <<CodePoint(SubSeq(bytes, 1, n))>> \o rest.text]

\* cp1252: bytes 128..159, 0 where the code page defines no character
Cp1252High ==
  <<8364, 0, 8218, 402, 8222, 8230, 8224, 8225, 710, 8240, 352, 8249, 338, 0, 381, 0,
    0, 8216, 8217, 8220, 8221, 8226, 8211, 8212, 732, 8482, 353, 8250, 339, 0, 382, 376>>

Cp1252Defined(b) == b < 128 \/ b > 159 \/ Cp1252High[b - 127] # 0
Cp1252Char(b) == IF b < 128 \/ b > 159 THEN b ELSE Cp1252High[b - 127]

\* bytes.decode('cp1252', errors=...) for strict, replace and ignore
DecodeCp1252(bytes, errors) ==
  LET defined == { i \in 1..Len(bytes) : Cp1252Defined(bytes[i]) }
      kept == IF errors = "ignore" THEN SelectSeq(bytes, Cp1252Defined) ELSE bytes
  IN IF errors = "strict" /\ defined # 1..Len(bytes)
       THEN [ok |-> FALSE, text |-> <<>>]
       ELSE [ok |-> TRUE,
             text |-> [i \in 1..Len(kept) |->
                         IF Cp1252Defined(kept[i]) THEN Cp1252Char(kept[i])
                         ELSE ReplacementChar]]

\* ISO-8859-1 maps every byte to the code point of the same number
DecodeLatin1(bytes) == [ok |-> TRUE, text |-> bytes]

\* ISO-8859-15 differs from ISO-8859-1 at eight positions
Latin9Char(b) ==
  IF b = 164 THEN 8364 ELSE IF b = 166 THEN 352 ELSE IF b = 168 THEN 353
  ELSE IF b = 180 THEN 381 ELSE IF b = 184 THEN 382 ELSE IF b = 188 THEN 338
  ELSE IF b = 189 THEN 339 ELSE IF b = 190 THEN 376 ELSE b

DecodeLatin9(bytes) == [ok |-> TRUE, text |-> [i \in 1..Len(bytes) |-> Latin9Char(bytes[i])]]

Decode(bytes, encoding, errors) ==
  IF encoding = "utf-8" THEN DecodeUtf8(bytes)
  ELSE IF encoding = "cp1252" THEN DecodeCp1252(bytes, errors)
  ELSE IF encoding = "ISO-8859-1" THEN DecodeLatin1(bytes)
  ELSE DecodeLatin9(bytes)

encodings_to_try ==
  << <<"utf-8", "strict">>, <<"cp1252", "strict">>, <<"ISO-8859-1", "strict">>,
     <<"ISO-8859-15", "strict">>, <<"cp1252", "replace">> >>

\* the for-loop: the first entry whose decoding does not raise
TryEncodings(bytes) ==
  LET succeeded == { k \in 1..Len(encodings_to_try) :
                       Decode(bytes, encodings_to_try[k][1], encodings_to_try[k][2]).ok }
  IN IF succeeded = {}
       THEN [raised |-> FALSE,
             file_content |-> DecodeCp1252(bytes, "ignore").text,
             successful_encoding |-> "cp1252 (fallback)"]
       ELSE LET k == CHOOSE i \in succeeded : \A j \in succeeded : i <= j
            IN [raised |-> FALSE,
                file_content |-> Decode(bytes, encodings_to_try[k][1], encodings_to_try[k][2]).text,
                successful_encoding |-> encodings_to_try[k][1]]

\* load_csv_file up to the decoded text
DecodeFile(bytes) ==
  IF StartsWith(bytes, BOM)
    THEN LET decoded == DecodeUtf8(SubSeq(bytes, Len(BOM) + 1, Len(bytes)))
         IN IF decoded.ok
              THEN [raised |-> FALSE, file_content |-> decoded.text,
                    successful_encoding |-> "utf-8-sig"]
              ELSE [raised |-> TRUE, file_content |-> <<>>, successful_encoding |-> ""]
    ELSE TryEncodings(bytes)

\* uploads: 'a', the BOM bytes, the bytes of U+FFFD, a byte cp1252 leaves
\* undefined, a-umlaut in the 8-bit encodings, a byte UTF-8 never uses
ByteValues == {97, 239, 187, 191, 189, 129, 228, 255}
Uploads == UNION { [1..n -> ByteValues] : n \in 0..MaxBytes }

\* ---------------------------------------------------------------- parse_date
\* strptime formats, one token per directive or literal character
date_formats ==
  << <<"%d", ".", "%m", ".", "%Y">>,
     <<"%Y", "-", "%m", "-", "%d">>,
     <<"%d", "/", "%m", "/", "%Y">>,
     <<"%m", "/", "%d", "/", "%Y">>,
     <<"%d", ".", "%m", ".", "%y">>,
     <<"%Y", "%m", "%d">> >>

IsDirective(token) == token \in {"%d", "%m", "%Y", "%y"}

\* the widths a directive's pattern can take, in the order the pattern tries them
Widths(token) ==
  IF token = "%Y" THEN <<4>> ELSE IF token = "%y" THEN <<2>> ELSE <<2, 1>>

AllDigits(text) == \A i \in 1..Len(text) : text[i] \in Digits

\* the directive's pattern accepts the digits
Accepts(token, digits) ==
  /\ AllDigits(digits)
  /\ token = "%d" => DecimalValue(digits) >= 1 /\ DecimalValue(digits) <= 31
  /\ token = "%m" => DecimalValue(digits) >= 1 /\ DecimalValue(digits) <= 12

\* the match of the format's pattern against the whole text: <<>> for no match,
\* else <<fields>> with the number each directive took
RECURSIVE MatchFormat(_, _, _)
RECURSIVE MatchDirective(_, _, _, _)
MatchFormat(fmt, text, fields) ==
  IF fmt = <<>> THEN (IF text = <<>> THEN <<fields>> ELSE <<>>)
  ELSE IF IsDirective(Head(fmt)) THEN MatchDirective(fmt, text, fields, 1)
  ELSE IF text # <<>> /\ Head(text) = Head(fmt) THEN MatchFormat(Tail(fmt), Tail(text), fields)
  ELSE <<>>

MatchDirective(fmt, text, fields, choice) ==
  IF choice > Len(Widths(Head(fmt))) THEN <<>>
  ELSE LET w == Widths(Head(fmt))[choice]
           rest == IF Len(text) >= w /\ Accepts(Head(fmt), SubSeq(text, 1, w))
                     THEN MatchFormat(Tail(fmt), SubSeq(text, w + 1, Len(text)),
                                      [fields EXCEPT ![Head(fmt)] = DecimalValue(SubSeq(text, 1, w))])
                     ELSE <<>>
       IN IF rest # <<>> THEN rest ELSE MatchDirective(fmt, text, fields, choice + 1)

IsLeap(year) == (year % 4 = 0 /\ year % 100 # 0) \/ year % 400 = 0

DaysInMonth(year, month) ==
  IF month = 2 THEN (IF IsLeap(year) THEN 29 ELSE 28)
  ELSE IF month \in {4, 6, 9, 11} THEN 30 ELSE 31

\* a cell of a table: missing (NaN, None, NaT) or a value
NaN == [kind |-> "nan"]
Str(text) == [kind |-> "str", text |-> text]
Float(number) == [kind |-> "float", value |-> number]
Date(year, month, day) == [kind |-> "date", year |-> year, month |-> month, day |-> day]
Bool(b) == [kind |-> "bool", value |-> b]

isna(cell) == cell.kind = "nan"

\* datetime.strptime(text, fmt): NaN stands for ValueError
Strptime(text, fmt) ==
  LET found == MatchFormat(fmt, text, [t \in {"%d", "%m", "%Y", "%y"} |-> 0 - 1])
  IN IF found = <<>> THEN NaN
     ELSE LET f == found[1]
              year == IF f["%Y"] >= 0 THEN f["%Y"]
                      ELSE IF f["%y"] >= 69 THEN 1900 + f["%y"] ELSE 2000 + f["%y"]
          IN IF year >= 1 /\ f["%d"] <= DaysInMonth(year, f["%m"])
               THEN Date(year, f["%m"], f["%d"])
               ELSE NaN

\* the for-loop over date_formats, from format k on
RECURSIVE TryFormats(_, _)
TryFormats(text, k) ==
  IF k > Len(date_formats) THEN NaN
  ELSE IF ~isna(Strptime(text, date_formats[k])) THEN Strptime(text, date_formats[k])
  ELSE TryFormats(text, k + 1)

\* ------------------------------------------------------ normalize_dataframe
MaxRawRows == 2

\* the decimal digits of a natural number
RECURSIVE IntDigits(_)
IntDigits(n) ==
  IF n < 10 THEN <<DigitSeq[n + 1]>> ELSE IntDigits(n \div 10) \o <<DigitSeq[(n % 10) + 1]>>

\* the number without trailing decimal zeros
RECURSIVE Shortest(_)
Shortest(number) ==
  IF number.frac > 0 /\ number.mant % 10 = 0
    THEN Shortest(Number(number.mant \div 10, number.frac - 1))
    ELSE number

Zeros(n) == [i \in 1..n |-> "0"]

\* str(x) of a float: the shortest decimal that reads back as x, with an
\* exponent when the decimal point lies more than three zeros before the digits
FormatFloat(number) ==
  LET short == Shortest(number)
      digits == IntDigits(Abs(short.mant))
      decpt == Len(digits) - short.frac
      sign == IF short.mant < 0 THEN <<"-">> ELSE <<>>
      exponent == IntDigits(1 - decpt)
  IN sign \o
     (IF short.mant = 0 THEN <<"0", ".", "0">>
      ELSE IF decpt <= 0 - 4
        THEN <<Head(digits)>>
             \o (IF Len(digits) > 1 THEN <<".">> \o Tail(digits) ELSE <<>>)
             \o <<"e", "-">> \o (IF Len(exponent) < 2 THEN <<"0">> ELSE <<>>) \o exponent
      ELSE IF short.frac = 0 THEN digits \o <<".", "0">>
      ELSE IF decpt > 0
        THEN SubSeq(digits, 1, decpt) \o <<".">> \o SubSeq(digits, decpt + 1, Len(digits))
      ELSE <<"0", ".">> \o Zeros(0 - decpt) \o digits)

\* variant: the sign of a number is not written
CellTextUnsigned(cell) ==
  IF cell.kind = "float" THEN FormatFloat(Number(Abs(cell.value.mant), cell.value.frac))
  ELSE cell.text

\* str(cell) for a cell that is not missing
CellText(cell) == IF cell.kind = "float" THEN FormatFloat(cell.value) ELSE cell.text

\* Series.astype(str): a missing cell becomes the text "nan"
astype_str(cell) == IF isna(cell) THEN Str(<<"n", "a", "n">>) ELSE Str(CellText(cell))

parse_date(cell) == IF isna(cell) THEN NaN ELSE TryFormats(Strip(CellText(cell)), 1)

\* Series.apply(clean_amount)
AmountCell(cell) ==
  Float(clean_amount(IF isna(cell) THEN None ELSE Some(CellText(cell))))

\* the canonical fields and the columns of the result, in the order of assignment
Fields == {"date", "description", "amount", "account", "currency"}
Columns ==
  <<"Date", "Description", "Amount", "Account", "Currency", "Source", "Category",
    "Internal_Transfer">>

SourceFile == <<"a", ".", "c", "s", "v">>
UnknownAccount == <<"U", "n", "k", "n", "o", "w", "n">>
EUR == <<"E", "U", "R">>

\* the right-hand side of the k-th assignment: a Series over the rows of df, or
\* a scalar
Assigned(df, mapping, k) ==
  LET series(field, convert(_)) ==
        [series |-> TRUE, cells |-> [i \in 1..Len(df) |-> convert(df[i][field])]]
      scalar(cell) == [series |-> FALSE, cells |-> <<cell>>]
  IN CASE k = 1 -> IF "date" \in mapping THEN series("date", parse_date) ELSE scalar(NaN)
       [] k = 2 -> IF "description" \in mapping THEN series("description", astype_str)
                   ELSE scalar(Str(<<>>))
       [] k = 3 -> IF "amount" \in mapping THEN series("amount", AmountCell)
                   ELSE scalar(Float(Zero))
       [] k = 4 -> IF "account" \in mapping THEN series("account", astype_str)
                   ELSE scalar(Str(UnknownAccount))
       [] k = 5 -> IF "currency" \in mapping THEN series("currency", astype_str)
                   ELSE scalar(Str(EUR))
       [] k = 6 -> scalar(Str(SourceFile))
       [] k = 7 -> scalar(Str(Uncategorized))
       [] k = 8 -> scalar(Bool(FALSE))

\* DataFrame.__setitem__ with a new column name. A frame without rows takes the
\* index of the first non-empty Series assigned to it, and the columns it
\* already has are filled with NaN; a scalar fills the rows the frame has.
SetItem(frame, value) ==
  IF value.series /\ frame.len = 0 /\ Len(value.cells) > 0
    THEN [len |-> Len(value.cells),
          cols |-> [c \in 1..Len(frame.cols) |-> [i \in 1..Len(value.cells) |-> NaN]]
                   \o <<value.cells>>]
  ELSE IF value.series
    THEN [len |-> frame.len, cols |-> frame.cols \o <<value.cells>>]
  ELSE [len |-> frame.len,
        cols |-> frame.cols \o << [i \in 1..frame.len |-> value.cells[1]] >>]

\* the assignments from the k-th on
RECURSIVE AssignFrom(_, _, _, _)
AssignFrom(frame, df, mapping, k) ==
  IF k > Len(Columns) THEN frame
  ELSE AssignFrom(SetItem(frame, Assigned(df, mapping, k)), df, mapping, k + 1)

\* the returned table, one record per row of the frame
normalize_dataframe(df, mapping) ==
  LET frame == AssignFrom([len |-> 0, cols |-> <<>>], df, mapping, 1)
  IN [i \in 1..frame.len |->
        [Date |-> frame.cols[1][i], Description |-> frame.cols[2][i],
         Amount |-> frame.cols[3][i], Account |-> frame.cols[4][i],
         Currency |-> frame.cols[5][i], Source |-> frame.cols[6][i],
         Category |-> frame.cols[7][i], Internal_Transfer |-> frame.cols[8][i]]]

\* raw tables handed to normalize_dataframe
RawDates == {NaN, Str(<<"2", "9", ".", "0", "2", ".", "2", "0", "2", "4">>), Str(<<"3", "0", "/", "0", "2", "/", "2", "0", "2", "4">>)}
RawDescriptions == {NaN, Str(PlainDescription)}
RawAmounts == {NaN, Str(<<"1", "2", ",", "5", "0">>), Float(Number(0 - 5, 0))}
RawRows ==
  { [date |-> d, description |-> t, amount |-> a, account |-> Str(ShopAccount),
     currency |-> Str(<<"U", "S", "D">>)] :
    d \in RawDates, t \in RawDescriptions, a \in RawAmounts }
RawTables == UNION { [1..n -> RawRows] : n \in 0..MaxRawRows }
ColumnMappings == SUBSET Fields

\* ----------------------------------------------------- export and re-import
TwoDigits(n) == (IF n < 10 THEN <<"0">> ELSE <<>>) \o IntDigits(n)
FourDigits(n) == Zeros(4 - Len(IntDigits(n))) \o IntDigits(n)

\* DataFrame.to_csv: the text written for one cell; a missing cell is written empty
CsvText(cell) ==
  IF isna(cell) THEN <<>>
  ELSE IF cell.kind = "date"
    THEN FourDigits(cell.year) \o <<"-">> \o TwoDigits(cell.month) \o <<"-">> \o TwoDigits(cell.day)
  ELSE IF cell.kind = "bool"
    THEN (IF cell.value THEN <<"T", "r", "u", "e">> ELSE <<"F", "a", "l", "s", "e">>)
  ELSE CellText(cell)

to_csv(table) ==
  [i \in 1..Len(table) |-> [c \in DOMAIN table[i] |-> CsvText(table[i][c])]]

\* pd.read_csv: a number written with or without exponent
ParseCsvFloat(text) ==
  LET marks == { i \in 1..Len(text) : text[i] = "e" }
      at == IF marks = {} THEN Len(text) + 1 ELSE CHOOSE i \in marks : \A j \in marks : i <= j
      mantissa == ParseFloat(SubSeq(text, 1, at - 1))
      tail == SubSeq(text, at + 1, Len(text))
      negative == tail # <<>> /\ Head(tail) = "-"
      digits == IF tail # <<>> /\ Head(tail) \in {"-", "+"} THEN Tail(tail) ELSE tail
      exponent == IF negative THEN 0 - DecimalValue(digits) ELSE DecimalValue(digits)
      frac == mantissa.value.frac - exponent
  IN IF marks = {} THEN mantissa
     ELSE IF ~mantissa.ok \/ digits = <<>> \/ ~AllDigits(digits) THEN [ok |-> FALSE, value |-> Zero]
     ELSE [ok |-> TRUE,
           value |-> IF frac >= 0 THEN Number(mantissa.value.mant, frac)
                     ELSE Number(mantissa.value.mant * (10 ^ (0 - frac)), 0)]

\* texts pd.read_csv takes for a missing value
NaTexts == {<<>>, <<"n", "a", "n">>, <<"N", "a", "N">>, <<"N", "A">>}

\* pd.read_csv: the cells of one column; a column whose present cells all are
\* numbers becomes a float column, any other one keeps its texts
ReadColumn(texts) ==
  LET numeric == \A i \in 1..Len(texts) : texts[i] \in NaTexts \/ ParseCsvFloat(texts[i]).ok
  IN [i \in 1..Len(texts) |->
        IF texts[i] \in NaTexts THEN NaN
        ELSE IF numeric THEN Float(ParseCsvFloat(texts[i]).value)
        ELSE Str(texts[i])]

\* the columns the identity mapping selects for the canonical fields
IdentityMapping ==
  [date |-> "Date", description |-> "Description", amount |-> "Amount",
   account |-> "Account", currency |-> "Currency"]

\* pd.read_csv of the exported cells, the columns named by their canonical field
read_csv(cells) ==
  [i \in 1..Len(cells) |->
     [f \in Fields |-> ReadColumn([r \in 1..Len(cells) |-> cells[r][IdentityMapping[f]]])[i]]]

\* final tables: labelled rows as classification leaves them
FinalAmounts ==
  {NaN, Float(Number(125, 1)), Float(Number(0 - 5, 0)), Float(Zero), Float(Number(1, 5))}
FinalCategories == {Str(Uncategorized), Str(Sonstiges), Str(InternalTransferLabel)}
FinalDates == {NaN, Date(2024, 2, 29)}
FinalRows ==
  { [Date |-> d, Description |-> Str(PlainDescription), Amount |-> a,
     Account |-> Str(ShopAccount), Currency |-> Str(EUR), Source |-> Str(SourceFile),
     Category |-> c, Internal_Transfer |-> Bool(c = Str(InternalTransferLabel))] :
    d \in FinalDates, a \in FinalAmounts, c \in FinalCategories }
FinalTables == UNION { [1..n -> FinalRows] : n \in 1..MaxRawRows }

\* ------------------------------------------------------- auto_detect_columns
MaxHeaders == 2
MaxFiles == 2

COLUMN_MAPPINGS ==
  [date |->
     << <<"d", "a", "t", "u", "m">>, <<"d", "a", "t", "e">>,
        <<"b", "u", "c", "h", "u", "n", "g">>, <<"v", "a", "l", "u", "t", "a">>,
        <<"b", "u", "c", "h", "u", "n", "g", "s", "t", "a", "g">>,
        <<"w", "e", "r", "t", "s", "t", "e", "l", "l", "u", "n", "g">>,
        <<"t", "r", "a", "n", "s", "a", "c", "t", "i", "o", "n", " ", "d", "a", "t", "e">>,
        <<"t", "r", "a", "n", "s", "a", "c", "t", "i", "o", "n", "d", "a", "t", "e">> >>,
   description |->
     << <<"b", "e", "s", "c", "h", "r", "e", "i", "b", "u", "n", "g">>,
        <<"d", "e", "s", "c", "r", "i", "p", "t", "i", "o", "n">>,
        <<"v", "e", "r", "w", "e", "n", "d", "u", "n", "g", "s", "z", "w", "e", "c", "k">>,
        <<"b", "u", "c", "h", "u", "n", "g", "s", "t", "e", "x", "t">>,
        <<"t", "e", "x", "t">>, <<"d", "e", "t", "a", "i", "l", "s">>,
        <<"t", "r", "a", "n", "s", "a", "c", "t", "i", "o", "n", " ", "d", "e", "t", "a", "i", "l", "s">>,
        <<"p", "u", "r", "p", "o", "s", "e">> >>,
   amount |->
     << <<"b", "e", "t", "r", "a", "g">>, <<"a", "m", "o", "u", "n", "t">>,
        <<"w", "e", "r", "t">>, <<"v", "a", "l", "u", "e">>, <<"s", "u", "m">>,
        <<"s", "u", "m", "m", "e">> >>,
   account |->
     << <<"a", "u", "f", "t", "r", "a", "g", "g", "e", "b", "e", "r">>,
        <<"e", "m", "p", "f", "ä", "n", "g", "e", "r">>,
        <<"e", "m", "p", "f", "a", "e", "n", "g", "e", "r">>,
        <<"a", "u", "f", "t", "r", "a", "g", "g", "e", "b", "e", "r", "/", "e", "m", "p", "f", "ä", "n", "g", "e", "r">>,
        <<"a", "u", "f", "t", "r", "a", "g", "g", "e", "b", "e", "r", "/", "e", "m", "p", "f", "a", "e", "n", "g", "e", "r">>,
        <<"a", "u", "f", "t", "r", "a", "g", "g", "e", "b", "e", "r", "/", "e", "m", "p", "f", "n", "g", "e", "r">>,
        <<"a", "c", "c", "o", "u", "n", "t">>,
        <<"r", "e", "c", "i", "p", "i", "e", "n", "t">>, <<"p", "a", "y", "e", "e">>,
        <<"p", "a", "y", "e", "r">>, <<"n", "a", "m", "e">> >>,
   currency |->
     << <<"w", "ä", "h", "r", "u", "n", "g">>,
        <<"w", "a", "e", "h", "r", "u", "n", "g">>, <<"w", "h", "r", "u", "n", "g">>,
        <<"c", "u", "r", "r", "e", "n", "c", "y">>, <<"w", "h", "r", "u", "n">>,
        <<"e", "u", "r">>, <<"u", "s", "d">> >>]

\* the canonical fields in the order of the keys of COLUMN_MAPPINGS
FieldOrder == <<"date", "description", "amount", "account", "currency">>

\* str.lower() on one character
Lower(c) ==
  IF c = "Ä" THEN "ä" ELSE IF c = "Ö" THEN "ö" ELSE IF c = "Ü" THEN "ü" ELSE Fold(c)

\* variant: the case of the header is kept
normalize_column_name_cased(col) ==
  Remove(Strip(col), {" ", "_"})

\* col.lower().strip().replace(' ', '').replace('_', '')
normalize_column_name(col) ==
  Remove(Strip([i \in 1..Len(col) |-> Lower(col[i])]), {" ", "_"})

\* normalized_cols: for a normalised name, the first column that has it
FirstColumn(columns, norm) ==
  columns[CHOOSE p \in 1..Len(columns) :
            /\ normalize_column_name(columns[p]) = norm
            /\ \A q \in 1..(p - 1) : normalize_column_name(columns[q]) # norm]

InColumns(columns, norm) ==
  \E p \in 1..Len(columns) : normalize_column_name(columns[p]) = norm

\* variant: the first header that matches any variation of the field is taken
DetectFieldByHeader(columns, variations) ==
  LET hits == { p \in 1..Len(columns) :
                  \E k \in 1..Len(variations) :
                    normalize_column_name(columns[p]) = normalize_column_name(variations[k]) }
  IN IF hits = {} THEN None
     ELSE Some(columns[CHOOSE p \in hits : \A q \in hits : p <= q])

\* the inner loop over the variations of one field, with its break
DetectField(columns, variations) ==
  LET hits == { k \in 1..Len(variations) :
                  InColumns(columns, normalize_column_name(variations[k])) }
  IN IF hits = {} THEN None
     ELSE Some(FirstColumn(columns,
                 normalize_column_name(variations[CHOOSE k \in hits : \A j \in hits : k <= j])))

\* the returned dict: None or Some(header) for every canonical field
auto_detect_columns(columns) ==
  [f \in Fields |-> DetectField(columns, COLUMN_MAPPINGS[f])]

\* headers of uploaded files
Headers ==
  { <<"D", "a", "t", "u", "m">>, <<"d", "a", "t", "u", "m", " ">>, <<"D", "A", "T", "U", "M">>, <<"D", "a", "t", "e">>, <<"B", "e", "_", "t", "r", "a", "g">>, <<"W", "E", "R", "T">>, <<"T", "r", "a", "n", "s", " ", "a", "c", "t", "i", "o", "n", "_", "D", "a", "t", "e">>, <<"K", "o", "n", "t", "o">> }
HeaderLists == UNION { [1..n -> Headers] : n \in 0..MaxHeaders }
FileHeaderLists == UNION { [1..n -> HeaderLists] : n \in 1..MaxFiles }

\* -------------------------------------------------------------------- state
VARIABLES
  merged_df,              \* main: the merged, normalised table
  user_name,              \* main: configured user name
  tolerance,              \* detect_internal_transfers: tolerance argument
  processed_data,         \* st.session_state.processed_data
  cancel_classification,  \* st.session_state.cancel_classification
  pc,                     \* position of the script: idle, check, waiting, after_loop, returned
  df,                     \* classify_transactions: the copy being labelled
  to_classify_indices,    \* classify_transactions: indices of the unflagged rows
  batch_size,             \* classify_transactions: batch_size argument
  batch_start,            \* classify_transactions: loop variable
  completed,              \* classify_transactions: completed counter
  requests,               \* batches sent to ollama.chat in this run, in order
  outcomes,               \* what classify_batch_with_ollama returned for each of them
  progress,               \* progress updates shown in this run, in order
  warnings,               \* batches of this run for which st.warning was called
  run_cancelled,          \* the loop was left through the cancellation check
  report,                 \* what main() told the user about the last Classify press
  runs,                   \* classification runs started in this session
  batch_n,                \* classify_batch_with_ollama: len(transactions_batch)
  response,               \* classify_batch_with_ollama: what ollama.chat produced
  batch_result,           \* classify_batch_with_ollama: returned list, <<>> before the call
  file_content,           \* detect_delimiter: the decoded text
  delimiter,              \* detect_delimiter: returned delimiter, None before the call
  amount_str,             \* clean_amount: the argument
  amount,                 \* clean_amount: returned number, None before the call
  file_bytes,             \* load_csv_file: the bytes read from the upload
  successful_encoding,    \* load_csv_file: label of the accepted encoding, None before
  raised,                 \* load_csv_file: an exception left the function
  raw_df,                 \* normalize_dataframe: the df argument, rows of raw cells
  column_mapping,         \* normalize_dataframe: the canonical fields that are mapped
  normalized,             \* normalize_dataframe: returned table, None before the call
  csv,                    \* main: the cells of the exported file, None before the export
  file_columns,           \* main: df.columns of each uploaded file, in upload order
  detected                \* main: what auto_detect_columns returned for the files so far

vars ==
  << merged_df, user_name, tolerance, processed_data, cancel_classification, pc, df,
     to_classify_indices, batch_size, batch_start, completed, requests, outcomes,
     progress, warnings, run_cancelled, report, runs, batch_n, response, batch_result,
     file_content, delimiter, amount_str, amount, file_bytes, successful_encoding, raised,
     raw_df, column_mapping, normalized, csv, file_columns, detected >>

sessionVars == << merged_df, user_name, tolerance >>
batchCallVars == << batch_n, response, batch_result >>
delimiterVars == << file_content, delimiter >>
amountVars == << amount_str, amount >>
decodeVars == << file_bytes, successful_encoding, raised >>
normalizeVars == << raw_df, column_mapping, normalized >>
columnVars == << file_columns, detected >>
pureVars == << delimiterVars, amountVars, decodeVars, normalizeVars, csv, columnVars >>
runVars ==
  << df, to_classify_indices, batch_size, batch_start, completed, requests, outcomes,
     progress, warnings, run_cancelled >>

\* no call of detect_delimiter
DelimiterIdle == file_content = <<>> /\ delimiter = None
\* no call of clean_amount
AmountIdle == amount_str = None /\ amount = None
\* no call of load_csv_file
DecodeIdle == file_bytes = <<>> /\ successful_encoding = None /\ raised = FALSE
\* no call of normalize_dataframe
NormalizeIdle == raw_df = <<>> /\ column_mapping = {} /\ normalized = None
\* no call of auto_detect_columns
ColumnsIdle == file_columns = <<>> /\ detected = <<>>
PureIdle ==
  DelimiterIdle /\ AmountIdle /\ DecodeIdle /\ NormalizeIdle /\ csv = None /\ ColumnsIdle

\* ------------------------------------------------- classify_transactions
\* variant: every row is selected for classification
RECURSIVE UnflaggedAll(_, _)
UnflaggedAll(table, k) ==
  IF k > Len(table) THEN <<>> ELSE <<k>> \o UnflaggedAll(table, k + 1)

\* df[~df['Internal_Transfer']].index.tolist()
RECURSIVE Unflagged(_, _)
Unflagged(table, k) ==
  IF k > Len(table) THEN <<>>
  ELSE IF table[k].Internal_Transfer THEN Unflagged(table, k + 1)
  ELSE <<k>> \o Unflagged(table, k + 1)

\* variant: flagged rows are not labelled
MarkInternalNone(table) == table

\* df.loc[df['Internal_Transfer'], 'Category'] = 'Internal Transfer'
MarkInternal(table) ==
  [k \in 1..Len(table) |->
     IF table[k].Internal_Transfer
       THEN [table[k] EXCEPT !.Category = InternalTransferLabel]
       ELSE table[k]]

Min(a, b) == IF a < b THEN a ELSE b

total == Len(to_classify_indices)
\* variant: the batch runs one row too far
batch_end_one_more == Min(batch_start + batch_size + 1, total)
batch_end == Min(batch_start + batch_size, total)
\* variant: the slice is not closed at batch_end
batch_indices_open == SubSeq(to_classify_indices, batch_start + 1, total)
\* to_classify_indices[batch_start:batch_end]
batch_indices == SubSeq(to_classify_indices, batch_start + 1, batch_end)

\* for idx, category in zip(batch_indices, batch_categories): df.loc[idx, 'Category'] = category
AssignCategories(table, indices, categories) ==
  [k \in 1..Len(table) |->
     IF \E p \in 1..Min(Len(indices), Len(categories)) : indices[p] = k
       THEN [table[k] EXCEPT !.Category =
               categories[CHOOSE p \in 1..Min(Len(indices), Len(categories)) : indices[p] = k]]
       ELSE table[k]]

\* variant: batch numbers counted from 0
ProgressUpdateZeroBased ==
  << batch_end, total, batch_start \div batch_size,
     (total + batch_size - 1) \div batch_size >>

\* the progress update after a batch: (completed, total, batch_num, total_batches)
ProgressUpdate ==
  << batch_end, total, (batch_start \div batch_size) + 1,
     (total + batch_size - 1) \div batch_size >>

\* ---------------------------------------------------------------- actions
\* main: the "Detect Internal Transfers" button
DetectButton ==
  /\ pc = "idle"
  /\ processed_data' = Some(detect_internal_transfers(merged_df, user_name, UITolerance))
  /\ UNCHANGED << sessionVars, cancel_classification, pc, runVars, report, runs,
                  batchCallVars, pureVars >>

\* main: the "Cancel" button
CancelButton ==
  /\ cancel_classification' = TRUE
  /\ UNCHANGED << sessionVars, processed_data, pc, runVars, report, runs, batchCallVars, pureVars >>

\* variant: the cancel flag is reset before processed_data is looked at
ClassifyWithoutDataResetsFlag ==
  /\ pc = "idle"
  /\ processed_data = None
  /\ cancel_classification' = FALSE
  /\ report' = "detect_first"
  /\ UNCHANGED << sessionVars, processed_data, pc, runVars, runs, batchCallVars, pureVars >>

\* main: the "Classify" button while nothing was detected yet
ClassifyWithoutData ==
  /\ pc = "idle"
  /\ processed_data = None
  /\ report' = "detect_first"
  /\ UNCHANGED << sessionVars, processed_data, cancel_classification, pc, runVars, runs,
                  batchCallVars, pureVars >>

\* variant: the cancel flag is left as the last interaction set it
ClassifyStartKeepsFlag ==
  /\ pc = "idle"
  /\ processed_data # None
  /\ runs < MaxRuns
  /\ runs' = runs + 1
  /\ \E size \in BatchSizes : batch_size' = size
  /\ to_classify_indices' = Unflagged(processed_data[1], 1)
  /\ df' = IF Len(to_classify_indices') = 0
             THEN MarkInternal(processed_data[1])
             ELSE processed_data[1]
  /\ pc' = IF Len(to_classify_indices') = 0 THEN "returned" ELSE "check"
  /\ batch_start' = 0
  /\ completed' = 0
  /\ requests' = <<>>
  /\ outcomes' = <<>>
  /\ progress' = <<>>
  /\ warnings' = {}
  /\ run_cancelled' = FALSE
  /\ report' = "running"
  /\ UNCHANGED << sessionVars, processed_data, cancel_classification, batchCallVars, pureVars >>

\* main: the "Classify" button; classify_transactions up to the loop
ClassifyStart ==
  /\ pc = "idle"
  /\ processed_data # None
  /\ runs < MaxRuns
  /\ runs' = runs + 1
  /\ cancel_classification' = FALSE
  /\ \E size \in BatchSizes : batch_size' = size
  /\ to_classify_indices' = Unflagged(processed_data[1], 1)
  /\ df' = IF Len(to_classify_indices') = 0
             THEN MarkInternal(processed_data[1])
             ELSE processed_data[1]
  /\ pc' = IF Len(to_classify_indices') = 0 THEN "returned" ELSE "check"
  /\ batch_start' = 0
  /\ completed' = 0
  /\ requests' = <<>>
  /\ outcomes' = <<>>
  /\ progress' = <<>>
  /\ warnings' = {}
  /\ run_cancelled' = FALSE
  /\ report' = "running"
  /\ UNCHANGED << sessionVars, processed_data, batchCallVars, pureVars >>

\* classify_transactions: the cancellation check at the head of the loop body,
\* then the request for the batch
BatchCheck ==
  /\ pc = "check"
  /\ IF cancel_classification
       THEN /\ run_cancelled' = TRUE
            /\ pc' = "after_loop"
            /\ UNCHANGED requests
       ELSE /\ requests' = Append(requests, batch_indices)
            /\ pc' = "waiting"
            /\ UNCHANGED run_cancelled
  /\ UNCHANGED << sessionVars, processed_data, cancel_classification, df,
                  to_classify_indices, batch_size, batch_start, completed, outcomes,
                  progress, warnings, report, runs, batchCallVars, pureVars >>

\* classify_transactions: ollama.chat answers or raises; the batch is labelled,
\* progress is shown and the loop goes to its next iteration or ends
ServiceResponse ==
  /\ pc = "waiting"
  /\ \E r \in Responses :
       LET result == classify_batch_with_ollama(Len(batch_indices), r)
       IN /\ df' = AssignCategories(df, batch_indices, result.categories)
          /\ outcomes' = Append(outcomes,
               [failed |-> ServiceFailed(r), categories |-> result.categories])
          /\ warnings' = IF result.warned THEN warnings \cup {Len(requests)} ELSE warnings
  /\ completed' = batch_end
  /\ progress' = Append(progress, ProgressUpdate)
  /\ batch_start' = batch_start + batch_size
  /\ pc' = IF batch_start' < total THEN "check" ELSE "after_loop"
  /\ UNCHANGED << sessionVars, processed_data, cancel_classification, to_classify_indices,
                  batch_size, requests, run_cancelled, report, runs, batchCallVars, pureVars >>

\* classify_transactions: the code after the loop
ClassifyReturn ==
  /\ pc = "after_loop"
  /\ df' = MarkInternal(df)
  /\ pc' = "returned"
  /\ UNCHANGED << sessionVars, processed_data, cancel_classification, to_classify_indices,
                  batch_size, batch_start, completed, requests, outcomes, progress,
                  warnings, run_cancelled, report, runs, batchCallVars, pureVars >>

\* main: the result is stored and the outcome is reported
MainReport ==
  /\ pc = "returned"
  /\ processed_data' = Some(df)
  /\ report' = IF cancel_classification THEN "cancelled" ELSE "complete"
  /\ pc' = "idle"
  /\ UNCHANGED << sessionVars, cancel_classification, runVars, runs, batchCallVars, pureVars >>

Init ==
  /\ merged_df \in UITables
  /\ user_name \in UserNames
  /\ tolerance = UITolerance
  /\ processed_data = None
  /\ cancel_classification = FALSE
  /\ pc = "idle"
  /\ df = <<>>
  /\ to_classify_indices = <<>>
  /\ batch_size = 1
  /\ batch_start = 0
  /\ completed = 0
  /\ requests = <<>>
  /\ outcomes = <<>>
  /\ progress = <<>>
  /\ warnings = {}
  /\ run_cancelled = FALSE
  /\ report = "none"
  /\ runs = 0
  /\ batch_n = 1
  /\ response = [kind |-> "raise", content |-> <<>>]
  /\ batch_result = <<>>
  /\ PureIdle

Next ==
  \/ DetectButton
  \/ CancelButton
  \/ ClassifyWithoutData
  \/ ClassifyStart
  \/ BatchCheck
  \/ ServiceResponse
  \/ ClassifyReturn
  \/ MainReport

Spec == Init /\ [][Next]_vars

\* -------------------------------------------- detect_internal_transfers alone
InitDetect ==
  /\ merged_df \in DetectTables
  /\ user_name \in UserNames
  /\ tolerance \in Tolerances
  /\ processed_data = None
  /\ cancel_classification = FALSE
  /\ pc = "detect"
  /\ df = <<>>
  /\ to_classify_indices = <<>>
  /\ batch_size = 1
  /\ batch_start = 0
  /\ completed = 0
  /\ requests = <<>>
  /\ outcomes = <<>>
  /\ progress = <<>>
  /\ warnings = {}
  /\ run_cancelled = FALSE
  /\ report = "none"
  /\ runs = 0
  /\ batch_n = 1
  /\ response = [kind |-> "raise", content |-> <<>>]
  /\ batch_result = <<>>
  /\ PureIdle

DetectCall ==
  /\ pc = "detect"
  /\ processed_data' = Some(detect_internal_transfers(merged_df, user_name, tolerance))
  /\ pc' = "detected"
  /\ UNCHANGED << sessionVars, cancel_classification, runVars, report, runs, batchCallVars, pureVars >>

NextDetect == DetectCall

SpecDetect == InitDetect /\ [][NextDetect]_vars

\* ------------------------- detect_internal_transfers applied to its own output
InitDetectTwice ==
  /\ merged_df \in RepeatTables
  /\ user_name \in UserNames
  /\ tolerance \in Tolerances
  /\ processed_data = None
  /\ cancel_classification = FALSE
  /\ pc = "detect"
  /\ df = <<>>
  /\ to_classify_indices = <<>>
  /\ batch_size = 1
  /\ batch_start = 0
  /\ completed = 0
  /\ requests = <<>>
  /\ outcomes = <<>>
  /\ progress = <<>>
  /\ warnings = {}
  /\ run_cancelled = FALSE
  /\ report = "none"
  /\ runs = 0
  /\ batch_n = 1
  /\ response = [kind |-> "raise", content |-> <<>>]
  /\ batch_result = <<>>
  /\ PureIdle

DetectAgain ==
  /\ pc = "detected"
  /\ processed_data' = Some(detect_internal_transfers(processed_data[1], user_name, tolerance))
  /\ pc' = "detected_again"
  /\ UNCHANGED << sessionVars, cancel_classification, runVars, report, runs, batchCallVars, pureVars >>

NextDetectTwice ==
  \/ DetectCall
  \/ DetectAgain

SpecDetectTwice == InitDetectTwice /\ [][NextDetectTwice]_vars

\* ------------------------------------------- classify_batch_with_ollama alone
InitBatch ==
  /\ merged_df = <<>>
  /\ user_name = <<>>
  /\ tolerance = UITolerance
  /\ processed_data = None
  /\ cancel_classification = FALSE
  /\ pc = "call"
  /\ df = <<>>
  /\ to_classify_indices = <<>>
  /\ batch_size = 1
  /\ batch_start = 0
  /\ completed = 0
  /\ requests = <<>>
  /\ outcomes = <<>>
  /\ progress = <<>>
  /\ warnings = {}
  /\ run_cancelled = FALSE
  /\ report = "none"
  /\ runs = 0
  /\ batch_n \in 1..MaxBatch
  /\ response \in BatchResponses
  /\ batch_result = <<>>
  /\ PureIdle

BatchCall ==
  /\ pc = "call"
  /\ batch_result' = classify_batch_with_ollama(batch_n, response).categories
  /\ pc' = "called"
  /\ UNCHANGED << sessionVars, processed_data, cancel_classification, runVars, report,
                  runs, batch_n, response, pureVars >>

NextBatch == BatchCall

SpecBatch == InitBatch /\ [][NextBatch]_vars

\* what the other parts of the program hold while one function is called alone
CoreIdle ==
  /\ merged_df = <<>>
  /\ user_name = <<>>
  /\ tolerance = UITolerance
  /\ cancel_classification = FALSE
  /\ pc = "call"
  /\ df = <<>>
  /\ to_classify_indices = <<>>
  /\ batch_size = 1
  /\ batch_start = 0
  /\ completed = 0
  /\ requests = <<>>
  /\ outcomes = <<>>
  /\ progress = <<>>
  /\ warnings = {}
  /\ run_cancelled = FALSE
  /\ report = "none"
  /\ runs = 0
  /\ batch_n = 1
  /\ response = [kind |-> "raise", content |-> <<>>]
  /\ batch_result = <<>>

RestIdle == CoreIdle /\ ColumnsIdle
MainIdle == RestIdle /\ processed_data = None

coreVars == << sessionVars, processed_data, cancel_classification, runVars, report, runs,
               batchCallVars >>
mainVars == << coreVars, columnVars >>

\* ---------------------------------------------------- detect_delimiter alone
InitDelimiter ==
  /\ MainIdle
  /\ AmountIdle
  /\ DecodeIdle
  /\ NormalizeIdle
  /\ csv = None
  /\ file_content \in DelimiterTexts
  /\ delimiter = None

DelimiterCall ==
  /\ pc = "call"
  /\ delimiter' = Some(detect_delimiter(file_content))
  /\ pc' = "called"
  /\ UNCHANGED << mainVars, file_content, amountVars, decodeVars, normalizeVars, csv >>

NextDelimiter == DelimiterCall

SpecDelimiter == InitDelimiter /\ [][NextDelimiter]_vars

\* -------------------------------------------------------- clean_amount alone
InitAmount ==
  /\ MainIdle
  /\ DelimiterIdle
  /\ DecodeIdle
  /\ NormalizeIdle
  /\ csv = None
  /\ amount_str \in AmountArgs
  /\ amount = None

AmountCall ==
  /\ pc = "call"
  /\ amount' = Some(clean_amount(amount_str))
  /\ pc' = "called"
  /\ UNCHANGED << mainVars, delimiterVars, amount_str, decodeVars, normalizeVars, csv >>

NextAmount == AmountCall

SpecAmount == InitAmount /\ [][NextAmount]_vars

\* ------------------------------------------- decoding in load_csv_file alone
InitDecode ==
  /\ MainIdle
  /\ DelimiterIdle
  /\ AmountIdle
  /\ NormalizeIdle
  /\ csv = None
  /\ file_bytes \in Uploads
  /\ successful_encoding = None
  /\ raised = FALSE

DecodeCall ==
  /\ pc = "call"
  /\ LET result == DecodeFile(file_bytes)
     IN /\ raised' = result.raised
        /\ file_content' = result.file_content
        /\ successful_encoding' = Some(result.successful_encoding)
  /\ pc' = "called"
  /\ UNCHANGED << mainVars, delimiter, amountVars, file_bytes, normalizeVars, csv >>

NextDecode == DecodeCall

SpecDecode == InitDecode /\ [][NextDecode]_vars

\* ------------------------------------------------- normalize_dataframe alone
InitNormalize ==
  /\ MainIdle
  /\ DelimiterIdle
  /\ AmountIdle
  /\ DecodeIdle
  /\ csv = None
  /\ raw_df \in RawTables
  /\ column_mapping \in ColumnMappings
  /\ normalized = None

NormalizeCall ==
  /\ pc = "call"
  /\ normalized' = Some(normalize_dataframe(raw_df, column_mapping))
  /\ pc' = "called"
  /\ UNCHANGED << mainVars, delimiterVars, amountVars, decodeVars, raw_df, column_mapping, csv >>

NextNormalize == NormalizeCall

SpecNormalize == InitNormalize /\ [][NextNormalize]_vars

\* ------------------------------------------------ export and re-import alone
InitRoundTrip ==
  /\ RestIdle
  /\ processed_data \in { Some(table) : table \in FinalTables }
  /\ DelimiterIdle
  /\ AmountIdle
  /\ DecodeIdle
  /\ NormalizeIdle
  /\ csv = None

\* the download button: processed_data.to_csv(index=False)
ExportCall ==
  /\ pc = "call"
  /\ csv' = Some(to_csv(processed_data[1]))
  /\ pc' = "exported"
  /\ UNCHANGED << mainVars, delimiterVars, amountVars, decodeVars, normalizeVars >>

\* the exported file uploaded again: read and normalised with every canonical
\* field mapped to the column of its name
ImportCall ==
  /\ pc = "exported"
  /\ raw_df' = read_csv(csv[1])
  /\ column_mapping' = Fields
  /\ normalized' = Some(normalize_dataframe(read_csv(csv[1]), Fields))
  /\ pc' = "imported"
  /\ UNCHANGED << mainVars, delimiterVars, amountVars, decodeVars, csv >>

NextRoundTrip == ExportCall \/ ImportCall

SpecRoundTrip == InitRoundTrip /\ [][NextRoundTrip]_vars

\* ------------------------------------------------- auto_detect_columns alone
InitColumns ==
  /\ CoreIdle
  /\ processed_data = None
  /\ DelimiterIdle
  /\ AmountIdle
  /\ DecodeIdle
  /\ NormalizeIdle
  /\ csv = None
  /\ file_columns \in FileHeaderLists
  /\ detected = <<>>

\* main: the loop over the uploaded files, auto_detect_columns for the next one
AutoDetectCall ==
  /\ pc = "call"
  /\ Len(detected) < Len(file_columns)
  /\ detected' = Append(detected, auto_detect_columns(file_columns[Len(detected) + 1]))
  /\ UNCHANGED << coreVars, pc, delimiterVars, amountVars, decodeVars, normalizeVars, csv,
                  file_columns >>

NextColumns == AutoDetectCall

SpecColumns == InitColumns /\ [][NextColumns]_vars

\* the scheduler runs the script to its end; nothing makes the service answer
FairSpec ==
  /\ Spec
  /\ WF_vars(BatchCheck)
  /\ WF_vars(ClassifyReturn)
  /\ WF_vars(MainReport)

\* ------------------------------------------------------------------ claims
\* a run has left the loop and classify_transactions has not yet been left
\* for good: processed_data still is the table the run started from
AfterLoop == pc \in {"after_loop", "returned"} /\ runs > 0

\* batches completed in this run
BatchesDone == Len(outcomes)

\* the category the batch results give to the p-th unflagged row
ResultFor(p) == outcomes[((p - 1) \div batch_size) + 1].categories[((p - 1) % batch_size) + 1]

FirstCategorized ==
  \A p \in 1..Min(BatchesDone * batch_size, total) :
    df[to_classify_indices[p]].Category = ResultFor(p)

StoppedAtCheck ==
  /\ pc \notin {"check", "waiting"}
  /\ Len(requests) = BatchesDone
  /\ BatchesDone = batch_start \div batch_size
  /\ BatchesDone * batch_size < total

TotalBatches == CHOOSE q \in 0..total : q * batch_size >= total /\ (q = 0 \/ (q - 1) * batch_size < total)

\* C2: the run is reported cancelled exactly when a cancellation check saw the
\* flag and skipped at least one batch, and reported complete exactly when every
\* batch was processed.
C2_ReportMatchesOutcome ==
  (pc = "idle" /\ report \in {"cancelled", "complete"}) =>
    /\ (report = "cancelled") <=> (run_cancelled /\ BatchesDone < TotalBatches)
    /\ (report = "complete") <=> (BatchesDone = TotalBatches)

\* C3: no row with Internal_Transfer set is a member of a batch sent to the service.
C3_NoInternalInBatch ==
  \A k \in 1..Len(requests) : \A p \in 1..Len(requests[k]) :
    ~df[requests[k][p]].Internal_Transfer

C3_Witness ==
  /\ Len(requests) >= 1
  /\ \E k \in 1..Len(df) : df[k].Internal_Transfer

\* C4: when classify_transactions returns, every row with Internal_Transfer set
\* has the category "Internal Transfer" and was in no batch.
C4_InternalLabelled ==
  (pc = "returned") =>
    \A k \in 1..Len(df) :
      df[k].Internal_Transfer =>
        /\ df[k].Category = InternalTransferLabel
        /\ \A b \in 1..Len(requests) : \A p \in 1..Len(requests[b]) : requests[b][p] # k

C4_Witness ==
  /\ pc = "returned"
  /\ run_cancelled
  /\ BatchesDone >= 1
  /\ \E k \in 1..Len(df) : df[k].Internal_Transfer

\* C5: a failed service call gives "Sonstiges" to every member of its batch,
\* leaves the categories of the other batches as their results gave them, and
\* does not end the run: an uncancelled run still attempts every batch.
C5_FailureIsLocal ==
  /\ \A k \in 1..BatchesDone :
       /\ Len(outcomes[k].categories) = Len(requests[k])
       /\ \A p \in 1..Len(requests[k]) :
            /\ df[requests[k][p]].Category = outcomes[k].categories[p]
            /\ outcomes[k].failed => df[requests[k][p]].Category = Sonstiges
  /\ (AfterLoop /\ ~run_cancelled) => Len(requests) = TotalBatches

C5_Witness ==
  /\ pc = "returned"
  /\ ~run_cancelled
  /\ BatchesDone >= 2
  /\ outcomes[1].failed
  /\ 1 \in warnings
  /\ ~outcomes[2].failed

\* C6: for a batch of n rows and a reply with m recognised category lines the
\* result has exactly n entries: the first min(m, n) recovered categories in
\* reply order, then "Sonstiges" up to n.
C6_ExactlyNCategories ==
  (pc = "called" /\ response.kind = "text") =>
    LET recovered == ParseReply(response.content)
    IN /\ Len(batch_result) = batch_n
       /\ \A k \in 1..batch_n :
            batch_result[k] = IF k <= Len(recovered) THEN recovered[k] ELSE Sonstiges

C6_Witness ==
  /\ pc = "called"
  /\ response.kind = "text"
  /\ Len(ParseReply(response.content)) >= 1
  /\ Len(ParseReply(response.content)) < batch_n
  /\ batch_result[batch_n] = Sonstiges
  /\ batch_result[1] # Sonstiges

RECURSIVE Flatten(_)
Flatten(seqs) == IF seqs = <<>> THEN <<>> ELSE Head(seqs) \o Flatten(Tail(seqs))

\* C7: in an uncancelled run the unflagged rows are cut into consecutive batches
\* in table order: the batches concatenated are exactly the unflagged rows in
\* increasing order, every batch but the last has batch_size members and the
\* last has between 1 and batch_size.
C7_ConsecutiveBatches ==
  (AfterLoop /\ ~run_cancelled) =>
    LET all == Flatten(requests)
    IN /\ \A p \in 1..(Len(all) - 1) : all[p] < all[p + 1]
       /\ { all[p] : p \in 1..Len(all) } = { k \in 1..Len(df) : ~df[k].Internal_Transfer }
       /\ \A k \in 1..(Len(requests) - 1) : Len(requests[k]) = batch_size
       /\ Len(requests) > 0 =>
            /\ Len(requests[Len(requests)]) >= 1
            /\ Len(requests[Len(requests)]) <= batch_size

C7_Witness ==
  /\ pc = "returned"
  /\ ~run_cancelled
  /\ batch_size = 2
  /\ Len(requests) = 2
  /\ Len(requests[1]) = 2
  /\ Len(requests[2]) = 1

\* C8: every processed batch produces exactly one progress update
\* (completed, total, batch number, number of batches); batch numbers count
\* from 1, completed grows strictly, never exceeds total, and is total after the
\* last batch of an uncancelled run.
C8_ProgressUpdates ==
  /\ Len(progress) = BatchesDone
  /\ \A k \in 1..Len(progress) :
       /\ progress[k][2] = total
       /\ progress[k][3] = k
       /\ progress[k][4] = TotalBatches
       /\ progress[k][1] <= total
       /\ progress[k][1] > (IF k = 1 THEN 0 ELSE progress[k - 1][1])
  /\ (AfterLoop /\ ~run_cancelled /\ total > 0) => progress[Len(progress)][1] = total

C8_Witness ==
  /\ pc = "returned"
  /\ ~run_cancelled
  /\ Len(progress) = 2
  /\ progress[1] = <<2, 3, 1, 2>>
  /\ progress[2] = <<3, 3, 2, 2>>

\* C9: a classification run always ends, reported complete or cancelled, even
\* when the service never answers.
C9_RunEnds == (report = "running") ~> (report \in {"cancelled", "complete"})

\* ---- claims about detect_internal_transfers
Amount(k) == merged_df[k].Amount

\* row k takes part in the pairing step: no investment, not flagged before
\* the pairing starts, date known
Candidate(k) ==
  /\ ~is_investment(merged_df[k])
  /\ ~merged_df[k].Internal_Transfer
  /\ ~(user_name # <<>> /\ matches_user(merged_df[k], user_name))
  /\ merged_df[k].Date # NaT

\* amounts cancel within the tolerance and the dates are at most 2 days apart
Offsetting(i, j) ==
  /\ i # j
  /\ Abs(Amount(i) + Amount(j)) <= tolerance
  /\ Abs(merged_df[i].Date[1] - merged_df[j].Date[1]) <= 2

\* C10: two rows that take part in the pairing step, with nonzero amounts that
\* cancel within the tolerance and dates at most 2 days apart, are both flagged
\* when neither has another eligible partner.
C10_PairFlagged ==
  (pc = "detected") =>
    \A i, j \in 1..Len(merged_df) :
      ( /\ Candidate(i) /\ Candidate(j)
        /\ Amount(i) # 0 /\ Amount(j) # 0
        /\ Offsetting(i, j)
        /\ \A k \in 1..Len(merged_df) \ {i, j} :
             Candidate(k) => (~Offsetting(i, k) /\ ~Offsetting(j, k)) )
      => /\ processed_data[1][i].Internal_Transfer
         /\ processed_data[1][j].Internal_Transfer

C10_Witness ==
  /\ pc = "detected"
  /\ Candidate(1) /\ Candidate(3) /\ Candidate(2)
  /\ Amount(1) = -1 /\ Amount(3) = 1 /\ tolerance = 1
  /\ merged_df[1].Date = <<0>> /\ merged_df[3].Date = <<2>>
  /\ ~Offsetting(1, 2) /\ ~Offsetting(3, 2)
  /\ processed_data[1][1].Internal_Transfer
  /\ processed_data[1][3].Internal_Transfer
  /\ ~processed_data[1][2].Internal_Transfer

\* the table after detection
Flagged(k) == processed_data[1][k].Internal_Transfer

\* the description holds an investment keyword at some position, whatever the case
HasInvestmentKeyword(k) ==
  \E w \in 1..Len(investment_keywords) :
    \E p \in 0..(Len(merged_df[k].Description) - Len(investment_keywords[w])) :
      \A c \in 1..Len(investment_keywords[w]) :
        Fold(merged_df[k].Description[p + c]) = Fold(investment_keywords[w][c])

\* the account holds the user name at some position, character by character
\* and whatever the case
AccountHasUserName(k) ==
  \E p \in 0..(Len(merged_df[k].Account) - Len(user_name)) :
    \A c \in 1..Len(user_name) :
      Fold(merged_df[k].Account[p + c]) = Fold(user_name[c])

\* C11: a row whose description holds an investment keyword (in any case) is
\* never flagged: not by the user-name rule, not as current row and not as partner.
C11_InvestmentNeverFlagged ==
  (pc = "detected") =>
    \A k \in 1..Len(merged_df) : HasInvestmentKeyword(k) => ~Flagged(k)

C11_Witness ==
  /\ pc = "detected"
  /\ user_name = <<"m", ".", "x">>
  /\ tolerance = 1
  /\ merged_df[1].Description = InvestmentDescription
  /\ merged_df[1].Account = OwnAccount
  /\ merged_df[1].Amount = -1 /\ merged_df[1].Date = <<0>>
  /\ merged_df[2].Description = PlainDescription
  /\ merged_df[2].Account = ShopAccount
  /\ merged_df[2].Amount = 1 /\ merged_df[2].Date = <<0>>
  /\ ~Flagged(1) /\ ~Flagged(2)

\* a flagged row that the pairing step can account for: its date is known and
\* another flagged row offsets it
PairExplains(k) ==
  /\ merged_df[k].Date # NaT
  /\ \E j \in 1..Len(merged_df) :
       /\ Flagged(j)
       /\ merged_df[j].Date # NaT
       /\ Offsetting(k, j)

\* C12: with a non-empty user name every row without investment keyword whose
\* account contains the name (case-insensitive, literally) is flagged, whatever
\* its amount, date or partners; with an empty user name the rule flags nothing:
\* every flagged row is then one the pairing step accounts for.
C12_UserRule ==
  (pc = "detected") =>
    \A k \in 1..Len(merged_df) :
      /\ (user_name # <<>> /\ AccountHasUserName(k) /\ ~HasInvestmentKeyword(k)) => Flagged(k)
      /\ (user_name = <<>> /\ Flagged(k)) => PairExplains(k)

C12_Witness ==
  /\ pc = "detected"
  /\ user_name = <<"m", ".", "x">>
  /\ merged_df[1].Account = OwnAccount
  /\ merged_df[1].Description = PlainDescription
  /\ merged_df[1].Amount = 0 /\ merged_df[1].Date = NaT
  /\ Flagged(1)
  /\ \A k \in 2..Len(merged_df) : merged_df[k].Date = NaT /\ ~Flagged(k)

\* rows that take part in the pairing step, and those flagged by it
Candidates == { k \in 1..Len(merged_df) : Candidate(k) }
PairFlagged == { k \in Candidates : Flagged(k) }

\* the candidates of the table are three rows that offset each other pairwise
ThreeMutual ==
  /\ Cardinality(Candidates) = 3
  /\ \A i, j \in Candidates : i # j => Offsetting(i, j)

\* the first row the pairing step visits that has a partner
HasPartner(i) == Amount(i) # 0 /\ \E j \in Candidates : Offsetting(i, j)
FirstCurrent ==
  CHOOSE i \in Candidates : HasPartner(i) /\ \A h \in Candidates : HasPartner(h) => i <= h
FirstPartner ==
  CHOOSE j \in Candidates :
    /\ Offsetting(FirstCurrent, j)
    /\ \A h \in Candidates : Offsetting(FirstCurrent, h) => j <= h

\* C13 (as stated): of three mutually matching transactions exactly two are
\* flagged.
C13_TwoOfThree ==
  (pc = "detected" /\ ThreeMutual) => Cardinality(PairFlagged) = 2

\* C13 (amended): pairing is greedy and one-shot. The first row visited that has
\* a partner is flagged together with its lowest-index partner; every pairing
\* flags two rows not flagged before, so the rows flagged by pairing come in
\* twos; of three mutually matching transactions of which at least one has a
\* nonzero amount exactly two are flagged, the first with a nonzero amount and
\* the lowest-index other one.
C13_GreedyOneShot ==
  (pc = "detected") =>
    /\ Cardinality(PairFlagged) % 2 = 0
    /\ (\E i \in Candidates : HasPartner(i)) =>
         /\ Flagged(FirstCurrent)
         /\ Flagged(FirstPartner)
    /\ (ThreeMutual /\ \E i \in Candidates : Amount(i) # 0) =>
         PairFlagged = {FirstCurrent, FirstPartner}

C13_Witness ==
  /\ pc = "detected"
  /\ ThreeMutual
  /\ tolerance = 1
  /\ Amount(1) = 0 /\ Amount(2) = 1 /\ Amount(3) = -1
  /\ PairFlagged = {1, 2}

\* the text before the first line feed
Line1 ==
  LET feeds == { i \in 1..Len(file_content) : file_content[i] = "\n" }
  IN IF feeds = {} THEN file_content
     ELSE SubSeq(file_content, 1, (CHOOSE i \in feeds : \A j \in feeds : i <= j) - 1)

Occurrences(d) == Cardinality({ i \in 1..Len(Line1) : Line1[i] = d })

\* C19: detect_delimiter counts ';', ',', tab and '|' on the first line only and
\* returns the one with the highest count, the earlier one in the order ';', ',',
\* tab, '|' on a tie, and ';' when none occurs; "a;b,c;d" yields ';'.
C19_HighestCountFirstLine ==
  (pc = "called" /\ delimiter # None) =>
    LET order == <<";", ",", "\t", "|">>
        found == delimiter[1]
    IN /\ \E k \in 1..4 :
            /\ found = order[k]
            /\ \A j \in 1..4 : Occurrences(order[j]) <= Occurrences(found)
            /\ \A j \in 1..(k - 1) : Occurrences(order[j]) < Occurrences(found)
       /\ (\A j \in 1..4 : Occurrences(order[j]) = 0) => found = ";"
       /\ (file_content = ExampleLine) => found = ";"

C19_Witness ==
  /\ pc = "called"
  /\ file_content = <<"|", ",", "\n", ";">>
  /\ delimiter = Some(",")

\* the two decimal numbers are equal
SameNumber(a, b) == a.mant * (10 ^ b.frac) = b.mant * (10 ^ a.frac)

\* the characters of the cell that count, in order, the decimal mark written '.':
\* digits, '-', and the decimal mark, which is ',' when the cell has one
Kept ==
  LET text == amount_str[1]
      mark == IF \E i \in 1..Len(text) : text[i] = "," THEN "," ELSE "."
      used == SelectSeq(text, LAMBDA c : c \in Digits \cup {"-", mark})
  IN [i \in 1..Len(used) |-> IF used[i] = mark THEN "." ELSE used[i]]

\* C20: clean_amount always returns a number. With a ',' in the cell the ','
\* is the decimal point and every '.' is dropped; everything but digits, the
\* decimal point and '-' is removed; what then fails to parse (empty, a
\* misplaced '-', several points), and a null cell, gives 0.0.
\* "1.234,56" gives 1234.56, "12,50" gives 12.5, "abc" and "" give 0.0.
C20_CleanAmount ==
  (pc = "called" /\ amount # None) =>
    /\ amount[1].mant \in Int /\ amount[1].frac \in Nat
    /\ amount_str = None => SameNumber(amount[1], Zero)
    /\ amount_str # None =>
         /\ ParseFloat(Kept).ok => SameNumber(amount[1], ParseFloat(Kept).value)
         /\ ~ParseFloat(Kept).ok => SameNumber(amount[1], Zero)
         /\ (\E i \in 1..Len(Kept) : i > 1 /\ Kept[i] = "-") => SameNumber(amount[1], Zero)
         /\ Cardinality({ i \in 1..Len(Kept) : Kept[i] = "." }) > 1 => SameNumber(amount[1], Zero)
    /\ amount_str = Some(<<"1", ".", "2", "3", "4", ",", "5", "6">>) =>
         SameNumber(amount[1], Number(123456, 2))
    /\ amount_str = Some(<<"1", "2", ",", "5", "0">>) => SameNumber(amount[1], Number(125, 1))
    /\ amount_str \in {Some(<<"a", "b", "c">>), Some(<<>>)} => SameNumber(amount[1], Zero)

C20_Witness ==
  /\ pc = "called"
  /\ amount_str = Some(<<"1", ".", "2", "3", "4", ",", "5", "6">>)
  /\ amount = Some(Number(123456, 2))

HasBOM == Len(file_bytes) >= 3 /\ file_bytes[1] = 239 /\ file_bytes[2] = 187 /\ file_bytes[3] = 191

\* C17: decoding never raises: for every byte sequence, a BOM followed by
\* invalid UTF-8 included, load_csv_file gets decoded text and an encoding
\* label, "utf-8-sig" when the input starts with a BOM.
C17_DecodingNeverRaises ==
  (pc = "called") =>
    /\ ~raised
    /\ HasBOM => successful_encoding = Some("utf-8-sig")

\* the strict decodings load_csv_file can choose from, in its order
StrictOrder == <<"utf-8", "cp1252", "ISO-8859-1", "ISO-8859-15">>
Clean(k) ==
  /\ Decode(file_bytes, StrictOrder[k], "strict").ok
  /\ \A i \in 1..Len(Decode(file_bytes, StrictOrder[k], "strict").text) :
       Decode(file_bytes, StrictOrder[k], "strict").text[i] # 65533

\* C18: without a BOM the accepted encoding is the first in the order UTF-8,
\* cp1252, ISO-8859-1, ISO-8859-15 whose decoding succeeds and holds no U+FFFD;
\* a decoding that holds U+FFFD is passed over.
C18_FirstCleanDecoding ==
  (pc = "called" /\ ~HasBOM) =>
    /\ \A i \in 1..Len(file_content) : file_content[i] # 65533
    /\ \E k \in 1..4 :
         /\ successful_encoding = Some(StrictOrder[k])
         /\ Clean(k)
         /\ \A j \in 1..(k - 1) : ~Clean(j)

\* C14: for every raw table and every mapping, all fields unmapped included,
\* normalize_dataframe returns one transaction per raw row, in the order of the
\* raw rows.
C14_OneTransactionPerRow ==
  (pc = "called" /\ normalized # None) =>
    /\ Len(normalized[1]) = Len(raw_df)
    /\ \A i \in 1..Len(normalized[1]) :
         /\ "amount" \in column_mapping /\ raw_df[i].amount = NaN =>
              normalized[1][i].Amount = Float(Zero)
         /\ "description" \in column_mapping /\ raw_df[i].description # NaN =>
              normalized[1][i].Description = raw_df[i].description

\* C15: whatever else is mapped, every unmapped field of every returned
\* transaction holds its default: date absent, description empty, amount 0.0
\* (never NaN), account "Unknown", currency "EUR".
C15_DefaultsInUnmappedFields ==
  (pc = "called" /\ normalized # None) =>
    \A i \in 1..Len(normalized[1]) :
      /\ "date" \notin column_mapping => normalized[1][i].Date = NaN
      /\ "description" \notin column_mapping => normalized[1][i].Description = Str(<<>>)
      /\ "amount" \notin column_mapping => normalized[1][i].Amount = Float(Number(0, 0))
      /\ "account" \notin column_mapping =>
           normalized[1][i].Account = Str(<<"U", "n", "k", "n", "o", "w", "n">>)
      /\ "currency" \notin column_mapping =>
           normalized[1][i].Currency = Str(<<"E", "U", "R">>)
      /\ normalized[1][i].Amount # NaN

\* C16 (as stated): after export and re-import with the identity mapping every
\* row has the amount and the category it had before the export.
C16_SameAmountAndCategory ==
  (pc = "imported") =>
    /\ Len(normalized[1]) = Len(processed_data[1])
    /\ \A i \in 1..Len(normalized[1]) :
         /\ normalized[1][i].Amount.kind = processed_data[1][i].Amount.kind
         /\ normalized[1][i].Amount.kind = "float" =>
              SameNumber(normalized[1][i].Amount.value, processed_data[1][i].Amount.value)
         /\ normalized[1][i].Category = processed_data[1][i].Category

\* the amount is written without exponent: it is zero or at least 0.0001 in size
PlainDecimal(number) ==
  number.mant = 0
  \/ (IF number.mant < 0 THEN 0 - number.mant ELSE number.mant) * 10000 >= 10 ^ number.frac

\* C16 (amended): after export and re-import with the identity mapping there is
\* one row per exported row, in order; its amount is the amount before the
\* export when that is a number written without exponent, and 0.0 when the
\* amount was missing or is written with a negative exponent; its category is
\* "Uncategorized" whatever the category before the export.
C16_RoundTrip ==
  (pc = "imported") =>
    /\ Len(normalized[1]) = Len(processed_data[1])
    /\ \A i \in 1..Len(normalized[1]) :
         LET before == processed_data[1][i]
             after == normalized[1][i]
         IN /\ after.Category.kind = "str"
            /\ after.Category.text = <<"U", "n", "c", "a", "t", "e", "g", "o", "r", "i", "z", "e", "d">>
            /\ after.Amount.kind = "float"
            /\ before.Amount.kind = "nan" => after.Amount.value.mant = 0
            /\ (before.Amount.kind = "float" /\ PlainDecimal(before.Amount.value)) =>
                 SameNumber(after.Amount.value, before.Amount.value)
            /\ (before.Amount.kind = "float" /\ ~PlainDecimal(before.Amount.value)) =>
                 after.Amount.value.mant = 0

C16_Witness ==
  /\ pc = "imported"
  /\ Len(processed_data[1]) = 2
  /\ processed_data[1][1].Amount = Float(Number(125, 1))
  /\ processed_data[1][1].Category = Str(Sonstiges)
  /\ processed_data[1][2].Amount = Float(Number(0 - 5, 0))
  /\ normalized[1][1].Category = Str(Uncategorized)
  /\ SameNumber(normalized[1][1].Amount.value, Number(125, 1))
  /\ SameNumber(normalized[1][2].Amount.value, Number(0 - 5, 0))

\* ---- claims about auto_detect_columns
\* the header lower-cased, without surrounding whitespace, spaces and underscores
Canon(header) ==
  LET inner == { i \in 1..Len(header) : header[i] \notin {" ", "\t", "\n"} }
      trimmed == IF inner = {} THEN <<>>
                 ELSE SubSeq(header, CHOOSE i \in inner : \A j \in inner : i <= j,
                                     CHOOSE i \in inner : \A j \in inner : i >= j)
      kept == SelectSeq(trimmed, LAMBDA c : c \notin {" ", "_"})
  IN [i \in 1..Len(kept) |->
        IF kept[i] \in UpperSet THEN LowerCase[UpperIndex[kept[i]]] ELSE kept[i]]

\* the two header lists differ only in case, spaces and underscores
SameHeaders(a, b) ==
  Len(a) = Len(b) /\ \A p \in 1..Len(a) : Canon(a[p]) = Canon(b[p])

\* the position of the header a field is mapped to, 0 for an unmapped field
MappedPosition(columns, choice) ==
  IF choice = None THEN 0
  ELSE CHOOSE p \in 1..Len(columns) :
         columns[p] = choice[1] /\ \A q \in 1..(p - 1) : columns[q] # choice[1]

\* C21: the mapping depends on the normalised headers only: two files whose
\* headers differ only in case, spaces or underscores have every canonical field
\* mapped to the header at the same position; "Datum", "datum " and "DATUM"
\* each map to date.
C21_NormalisedHeadersDecide ==
  /\ \A i, j \in 1..Len(detected) :
       SameHeaders(file_columns[i], file_columns[j]) =>
         \A f \in {"date", "description", "amount", "account", "currency"} :
           MappedPosition(file_columns[i], detected[i][f])
             = MappedPosition(file_columns[j], detected[j][f])
  /\ \A i \in 1..Len(detected) :
       \A h \in {<<"D", "a", "t", "u", "m">>, <<"d", "a", "t", "u", "m", " ">>, <<"D", "A", "T", "U", "M">>} :
         file_columns[i] = <<h>> => detected[i].date = Some(h)

C21_Witness ==
  /\ Len(detected) = 2
  /\ file_columns[1] = <<<<"D", "a", "t", "u", "m">>, <<"B", "e", "_", "t", "r", "a", "g">>>>
  /\ file_columns[2] = <<<<"D", "A", "T", "U", "M">>, <<"W", "E", "R", "T">>>>
  /\ detected[1].date = Some(<<"D", "a", "t", "u", "m">>) /\ detected[1].amount = Some(<<"B", "e", "_", "t", "r", "a", "g">>)
  /\ detected[2].date = Some(<<"D", "A", "T", "U", "M">>) /\ detected[2].amount = Some(<<"W", "E", "R", "T">>)

\* the synonyms of a field, in priority order, that some header matches
MatchedSynonyms(columns, f) ==
  { k \in 1..Len(COLUMN_MAPPINGS[f]) :
      \E p \in 1..Len(columns) : Canon(columns[p]) = Canon(COLUMN_MAPPINGS[f][k]) }

\* C22: a field is mapped to the header matched by the earliest matching synonym
\* of its priority list, whatever the order of the headers; of several headers
\* with that normalised name the first is taken; a field without matching
\* synonym stays unmapped; a mapped value is one of the headers of the table.
C22_EarliestSynonymWins ==
  \A i \in 1..Len(detected) :
    \A f \in {"date", "description", "amount", "account", "currency"} :
      LET columns == file_columns[i]
          matched == MatchedSynonyms(columns, f)
      IN IF matched = {} THEN detected[i][f] = None
         ELSE LET best == CHOOSE k \in matched : \A j \in matched : k <= j
                  p == CHOOSE p \in 1..Len(columns) :
                         /\ Canon(columns[p]) = Canon(COLUMN_MAPPINGS[f][best])
                         /\ \A q \in 1..(p - 1) :
                              Canon(columns[q]) # Canon(COLUMN_MAPPINGS[f][best])
              IN /\ detected[i][f] = Some(columns[p])
                 /\ \E q \in 1..Len(columns) : detected[i][f] = Some(columns[q])

C22_Witness ==
  /\ Len(detected) = 2
  /\ file_columns[1] = <<<<"D", "a", "t", "e">>, <<"D", "A", "T", "U", "M">>>>
  /\ detected[1].date = Some(<<"D", "A", "T", "U", "M">>)
  /\ detected[1].amount = None
  /\ file_columns[2] = <<<<"D", "A", "T", "U", "M">>, <<"D", "a", "t", "u", "m">>>>
  /\ detected[2].date = Some(<<"D", "A", "T", "U", "M">>)

\* ---- claims about the classification service
\* C23: every service fault of a batch (the call raises, the reply is malformed,
\* empty or without a category line) produces a warning for that batch, besides
\* the fallback category.
C23_EveryFaultWarned ==
  \A k \in 1..Len(outcomes) : outcomes[k].failed => k \in warnings

\* C24: only rows still at "Uncategorized" are submitted: a row that carries a
\* category from an earlier pass is in no batch of a later run.
C24_OnlyUncategorizedSubmitted ==
  (pc \in {"check", "waiting", "after_loop", "returned"} /\ processed_data # None) =>
    \A k \in 1..Len(requests) : \A p \in 1..Len(requests[k]) :
      processed_data[1][requests[k][p]].Category = Uncategorized

\* the text without surrounding whitespace
Trimmed(text) ==
  LET inner == { i \in 1..Len(text) : text[i] \notin {" ", "\t", "\n"} }
  IN IF inner = {} THEN <<>>
     ELSE SubSeq(text, CHOOSE i \in inner : \A j \in inner : i <= j,
                       CHOOSE i \in inner : \A j \in inner : i >= j)

\* the trimmed lines of the reply that begin with a digit, in reply order
CategoryLines ==
  LET lines == Split(response.content)
  IN SelectSeq([k \in 1..Len(lines) |-> Trimmed(lines[k])],
               LAMBDA line : line # <<>> /\ line[1] \in Digits)

\* what follows the digits and at most one of '.', ')', '-', ':', trimmed
CategoryOf(line) ==
  LET others == { i \in 1..Len(line) : line[i] \notin Digits }
      d == IF others = {} THEN Len(line)
           ELSE (CHOOSE i \in others : \A j \in others : i <= j) - 1
      skip == IF d < Len(line) /\ line[d + 1] \in {".", ")", "-", ":"} THEN d + 1 ELSE d
  IN Trimmed(SubSeq(line, skip + 1, Len(line)))

NewlyFlagged(k) == Flagged(k) /\ ~merged_df[k].Internal_Transfer

\* C26: a flag is newly set only on a row without investment keyword that either
\* has the non-empty user name in its account or forms a pair with another
\* newly flagged row: both unflagged before the pairing, both with known dates,
\* dates at most 2 days apart, amounts cancelling within the tolerance, and the
\* current row of the pair with a nonzero amount.
C26_FlaggingIsSound ==
  (pc = "detected") =>
    \A k \in 1..Len(merged_df) :
      NewlyFlagged(k) =>
        /\ ~HasInvestmentKeyword(k)
        /\ \/ (user_name # <<>> /\ AccountHasUserName(k))
           \/ /\ Candidate(k)
              /\ \E j \in 1..Len(merged_df) :
                   /\ Candidate(j)
                   /\ NewlyFlagged(j)
                   /\ ~HasInvestmentKeyword(j)
                   /\ Offsetting(k, j)
                   /\ (Amount(k) # 0 \/ Amount(j) # 0)

C26_Witness ==
  /\ pc = "detected"
  /\ tolerance = 1
  /\ merged_df[1].Internal_Transfer
  /\ merged_df[1].Amount = -1 /\ merged_df[1].Date = <<0>>
  /\ merged_df[2].Amount = 1 /\ merged_df[2].Date = <<0>> /\ merged_df[2].Account = ShopAccount
  /\ merged_df[3].Amount = -2 /\ merged_df[3].Date = <<2>>
  /\ NewlyFlagged(2) /\ NewlyFlagged(3)

\* C27: no flag of the input is cleared, and a second application to the output
\* of the first, with the same user name and tolerance, changes nothing.
C27_IdempotentAndMonotone ==
  /\ (pc \in {"detected", "detected_again"}) =>
       \A k \in 1..Len(merged_df) : merged_df[k].Internal_Transfer => Flagged(k)
  /\ (pc = "detected_again") =>
       processed_data[1] = detect_internal_transfers(merged_df, user_name, tolerance)

C27_Witness ==
  /\ pc = "detected_again"
  /\ tolerance = 1
  /\ merged_df[1].Internal_Transfer /\ merged_df[1].Description = PlainDescription
  /\ merged_df[1].Amount = -1 /\ merged_df[1].Date = <<0>>
  /\ merged_df[2].Amount = 1 /\ merged_df[2].Date = <<0>> /\ merged_df[2].Account = ShopAccount
  /\ merged_df[3].Amount = 1 /\ merged_df[3].Date = <<2>> /\ merged_df[3].Account = ShopAccount
  /\ Flagged(1) /\ ~Flagged(2) /\ ~Flagged(3)

\* the (current, partner) pairs the loop forms from row idx on, flags being the
\* flag column when row idx is visited
RECURSIVE TransferPairs(_, _)
TransferPairs(flags, idx) ==
  LET investment == [k \in 1..Len(merged_df) |-> is_investment(merged_df[k])]
      matches == PairMatches(merged_df, flags, investment, idx, tolerance)
  IN IF idx > Len(merged_df) THEN {}
     ELSE IF flags[idx] \/ investment[idx] \/ merged_df[idx].Date = NaT
             \/ merged_df[idx].Amount = 0 \/ matches = {}
       THEN TransferPairs(flags, idx + 1)
     ELSE {<<idx, MinOf(matches)>>}
          \cup TransferPairs([k \in 1..Len(merged_df) |->
                                flags[k] \/ k = idx \/ k = MinOf(matches)], idx + 1)

\* the pairs of one application to merged_df
FlaggedPairs ==
  TransferPairs(UserRule(merged_df,
                         [k \in 1..Len(merged_df) |-> is_investment(merged_df[k])],
                         user_name), 1)

C29_StaleCancelCleared ==
  [][ /\ (runs' # runs) =>
           (~cancel_classification' /\ pc' \in {"check", "returned"})
      /\ (cancel_classification' /\ ~cancel_classification) =>
           UNCHANGED << pc, processed_data, runVars, report, runs >> ]_vars

\* the second run has passed its first check although the first run was
\* cancelled (its row is still uncategorized) and nothing but the start of the
\* second run has reset the flag
C29_Witness ==
  /\ runs = 2
  /\ pc = "waiting"
  /\ Len(requests) = 1
  /\ ~cancel_classification
  /\ \E p \in 1..Len(requests[1]) :
       processed_data[1][requests[1][p]].Category = Uncategorized

\* C30: while processed_data is unset a step other than detection is a Cancel
\* press or a Classify press that only shows the warning: no run starts, no
\* request is made, the session is unchanged. A run starts only with
\* processed_data set and works on that table, and processed_data only ever
\* takes the result of a detection or the table a run returned.
C30_DetectionFirst ==
  [][ /\ (processed_data = None /\ processed_data' = None) =>
           \/ /\ cancel_classification'
              /\ UNCHANGED << sessionVars, pc, runVars, report, runs >>
           \/ /\ report' = "detect_first"
              /\ UNCHANGED << sessionVars, cancel_classification, pc, runVars, runs >>
      /\ (runs' # runs) =>
           /\ processed_data # None
           /\ df' \in {processed_data[1], MarkInternal(processed_data[1])}
      /\ (processed_data' # processed_data) =>
           processed_data' \in
             { Some(detect_internal_transfers(merged_df, user_name, UITolerance)),
               Some(df) } ]_vars

C30_Witness ==
  /\ processed_data = None
  /\ report = "detect_first"
  /\ cancel_classification
  /\ runs = 0
  /\ requests = <<>>
  /\ pc = "idle"

====
